---- MODULE Spec2Model ----
(***************************************************************************)
(* Model of the curriculum generation, recommendation and adaptive        *)
(* learning core of the Personalized Learning Path backend                *)
(* (backend/ai_engine.py), of calculate_streak (backend/utils.py) and of  *)
(* the request handlers of backend/app.py that call them and that store   *)
(* learning paths and Progress rows.                                       *)
(*                                                                         *)
(* Python strings are TLA+ strings; str.lower, str.replace and the        *)
(* substring test are computed character by character.  Python lists are  *)
(* sequences, dicts are records (a key that may be absent is read through *)
(* Get, as dict.get is).  Display-only fields (description, subtopics)    *)
(* are left out of the curriculum templates.                              *)
(*                                                                         *)
(* Numbers: hours are counted in tenths of an hour (every base*multiplier *)
(* product is a whole number of tenths), daily_hours in tenths of an hour, *)
(* learning_velocity in hundredths of a topic per day.  A true division   *)
(* whose divisor is zero yields ZeroDivisionError, and a function that    *)
(* meets one returns ZeroDivisionError instead of its result.  Binary     *)
(* floating-point representation error is not modelled.                   *)
(***************************************************************************)
EXTENDS Integers, Sequences, FiniteSets, TLC

VARIABLES
    learning_path,    \* the curriculum dict the generation pipeline works on
    user_progress,    \* ids of the topics the user has completed
    user_skills,      \* the user's current skill list
    call,             \* the last engine call: its name, arguments and result
    users,            \* the User table: the target_role of every user
    learning_paths,   \* the LearningPath table, in insertion order
    requests,         \* the generate-path and regenerate-path requests in progress
    progress_rows     \* the Progress table, in insertion order

vars == <<learning_path, user_progress, user_skills, call,
          users, learning_paths, requests, progress_rows>>

\* the tables and the requests that work on them
db_vars == <<users, learning_paths, requests, progress_rows>>

----------------------------------------------------------------------------
(* Bounds of the model *)

\* longest current-skills list handed to determine_proficiency_level
MaxSkillCount == 11
\* the completed topics of the recommender runs lie among the first
\* CompletedWindow topics of the curriculum (and one id that is not in it)
CompletedWindow == 8
\* curricula with at most this many topics get every vector of random draws
MaxFullDraw == 2
\* longer curricula get the draw of topic k as 2 + (a + b*k) mod 7, b up to this
MaxStride == 1
\* largest topic count handed to predict_completion_date
MaxTopics == 5
\* longest preference list handed to fetch_resources_for_topic on its own
MaxPreferences == 2
\* longest performance list handed to adapt_curriculum
MaxPerformance == 3
\* longest activity-log list handed to calculate_streak
MaxLogs == 3
\* longest topic list handed to suggest_study_schedule
MaxScheduleTopics == 9
\* longest activity-log list handed to analyze_learning_velocity
MaxVelocityLogs == 9
\* longest progress list handed to detect_struggling_topics
MaxProgress == 2
\* most rows of the LearningPath table
MaxPaths == 3
\* most path requests in progress at the same time
MaxRequests == 2
\* most rows of the Progress table
MaxProgressRows == 3

----------------------------------------------------------------------------
(* Python built-ins *)

\* the absent value: no curriculum, no call
None == [none |-> TRUE]
ZeroDivisionError == "ZeroDivisionError"

UpperChars == "ABCDEFGHIJKLMNOPQRSTUVWXYZ"
LowerChars == "abcdefghijklmnopqrstuvwxyz"

CharAt(s, i) == SubSeq(s, i, i)

\* the lower-case letter of every upper-case letter
ToLower ==
    [c \in {CharAt(UpperChars, i) : i \in 1..Len(UpperChars)} |->
        CharAt(LowerChars, CHOOSE i \in 1..Len(UpperChars) : CharAt(UpperChars, i) = c)]

lower_char(c) == IF c \in DOMAIN ToLower THEN ToLower[c] ELSE c

RECURSIVE lower(_)
lower(s) ==
    IF Len(s) = 0 THEN ""
    ELSE lower_char(CharAt(s, 1)) \o lower(SubSeq(s, 2, Len(s)))

RECURSIVE replace(_, _, _)
replace(s, old, new) ==
    IF Len(s) = 0 THEN ""
    ELSE (IF CharAt(s, 1) = old THEN new ELSE CharAt(s, 1))
         \o replace(SubSeq(s, 2, Len(s)), old, new)

\* sub in s, for strings
str_in(sub, s) ==
    \E i \in 1..(Len(s) - Len(sub) + 1) : SubSeq(s, i, i + Len(sub) - 1) = sub

\* x in xs, for lists
InList(x, xs) == \E i \in 1..Len(xs) : xs[i] = x

\* all(pred(x) for x in xs)
All(xs, pred(_)) == \A i \in 1..Len(xs) : pred(xs[i])

\* d.get(key, default)
Get(d, key, default) == IF key \in DOMAIN d THEN d[key] ELSE default

\* d[key] = value
SetItem(d, key, value) ==
    [k \in DOMAIN d \cup {key} |-> IF k = key THEN value ELSE d[k]]

\* int(a / b) for b # 0: the quotient truncated toward zero
int_div(a, b) ==
    LET abs(x) == IF x < 0 THEN -x ELSE x
        q == abs(a) \div abs(b)
    IN  IF (a < 0) = (b < 0) THEN q ELSE -q

RECURSIVE sum(_)
sum(xs) == IF Len(xs) = 0 THEN 0 ELSE Head(xs) + sum(Tail(xs))

Min(a, b) == IF a <= b THEN a ELSE b

----------------------------------------------------------------------------
(* AIPathGenerator *)

load_skill_hierarchy ==
  [frontend |-> [beginner |-> <<"HTML", "CSS", "JavaScript Basics", "Git">>,
      intermediate |-> <<"React", "CSS Frameworks", "Responsive Design", "APIs">>,
      advanced |-> <<"State Management", "Performance Optimization", "Testing", "Build Tools">>],
   backend |-> [beginner |-> <<"Python Basics", "HTTP", "Databases", "Git">>,
      intermediate |-> <<"Flask/Django", "REST APIs", "SQL Advanced", "Authentication">>,
      advanced |-> <<"Microservices", "Caching", "Message Queues", "DevOps">>],
   fullstack |-> [beginner |-> <<"HTML", "CSS", "JavaScript", "Python", "Git">>,
      intermediate |-> <<"React", "Node.js/Flask", "Databases", "REST APIs">>,
      advanced |-> <<"System Design", "Cloud Deployment", "CI/CD", "Security">>],
   data_science |-> [beginner |-> <<"Python", "Statistics", "Pandas", "NumPy">>,
      intermediate |-> <<"Machine Learning", "Data Visualization", "SQL", "Feature Engineering">>,
      advanced |-> <<"Deep Learning", "MLOps", "Big Data", "Model Deployment">>],
   mobile |-> [beginner |-> <<"Programming Basics", "UI/UX Principles", "Git">>,
      intermediate |-> <<"React Native/Flutter", "State Management", "APIs", "Native Features">>,
      advanced |-> <<"Performance", "App Store Deployment", "Push Notifications", "Offline Support">>],
   devops |-> [beginner |-> <<"Linux", "Networking", "Git", "Scripting">>,
      intermediate |-> <<"Docker", "CI/CD", "Cloud Platforms", "Monitoring">>,
      advanced |-> <<"Kubernetes", "Infrastructure as Code", "Security", "Cost Optimization">>]]

\* a / b: the quotient as a fraction, or the error Python raises
true_div(a, b) ==
    IF b = 0 THEN [error |-> ZeroDivisionError] ELSE [num |-> a, den |-> b]

IsError(x) == "error" \in DOMAIN x

\* the number n as a fraction
Number(n) == [num |-> n, den |-> 1]

\* x * k for a fraction or error x
times(x, k) == IF IsError(x) THEN x ELSE [x EXCEPT !.num = @ * k]

\* int(x) for a fraction x
int(x) == int_div(x.num, x.den)

\* target_role.lower().replace(' ', '_')
role_key_of(target_role) == replace(lower(target_role), " ", "_")

lower_all(xs) == [i \in 1..Len(xs) |-> lower(xs[i])]

\* the advanced tier is not collected
required_skills_two_tiers(role_key) ==
    IF role_key \in DOMAIN load_skill_hierarchy
    THEN load_skill_hierarchy[role_key].beginner
         \o load_skill_hierarchy[role_key].intermediate
    ELSE <<>>

required_skills_of(role_key) ==
    IF role_key \in DOMAIN load_skill_hierarchy
    THEN load_skill_hierarchy[role_key].beginner
         \o load_skill_hierarchy[role_key].intermediate
         \o load_skill_hierarchy[role_key].advanced
    ELSE <<>>

\* the skills are compared as written
analyze_skill_gaps_case_sensitive(current_skills, target_role) ==
    LET role_key == role_key_of(target_role)
        required_skills == required_skills_of(role_key)
        gaps == SelectSeq(required_skills,
                          LAMBDA skill : ~InList(skill, current_skills))
        completion_percentage ==
            IF Len(required_skills) # 0
            THEN times(true_div(Len(current_skills), Len(required_skills)), 100)
            ELSE Number(0)
    IN  IF IsError(completion_percentage) THEN completion_percentage
        ELSE [missing_skills |-> gaps,
              existing_skills |-> current_skills,
              total_required |-> Len(required_skills),
              completion_percentage |-> completion_percentage]

analyze_skill_gaps(current_skills, target_role) ==
    LET role_key == role_key_of(target_role)
        required_skills == required_skills_of(role_key)
        current_skills_lower == lower_all(current_skills)
        gaps == SelectSeq(required_skills,
                          LAMBDA skill : ~InList(lower(skill), current_skills_lower))
        completion_percentage ==
            IF Len(required_skills) # 0
            THEN times(true_div(Len(current_skills), Len(required_skills)), 100)
            ELSE Number(0)
    IN  IF IsError(completion_percentage) THEN completion_percentage
        ELSE [missing_skills |-> gaps,
              existing_skills |-> current_skills,
              total_required |-> Len(required_skills),
              completion_percentage |-> completion_percentage]

\* either threshold of a tier is enough
determine_proficiency_level_or(current_skills, assessment_score) ==
    LET skill_count == Len(current_skills)
    IN  IF assessment_score >= 80 \/ skill_count >= 10 THEN "advanced"
        ELSE IF assessment_score >= 50 \/ skill_count >= 5 THEN "intermediate"
        ELSE "beginner"

\* the intermediate tier asks for exactly 5 skills
determine_proficiency_level_eq(current_skills, assessment_score) ==
    LET skill_count == Len(current_skills)
    IN  IF assessment_score >= 80 /\ skill_count >= 10 THEN "advanced"
        ELSE IF assessment_score >= 50 /\ skill_count = 5 THEN "intermediate"
        ELSE "beginner"

determine_proficiency_level(current_skills, assessment_score) ==
    LET skill_count == Len(current_skills)
    IN  IF assessment_score >= 80 /\ skill_count >= 10 THEN "advanced"
        ELSE IF assessment_score >= 50 /\ skill_count >= 5 THEN "intermediate"
        ELSE "beginner"

generate_fullstack_curriculum(proficiency) ==
  [title |-> "Full Stack Developer Path",
   target_role |-> "Full Stack Developer",
   difficulty |-> proficiency,
   modules |->
     IF proficiency = "beginner"
     THEN <<
      [id |-> "module_1", title |-> "Programming Fundamentals", order |-> 1, difficulty |-> "beginner",
       topics |-> <<
          [id |-> "topic_1_1", title |-> "Introduction to Programming",
           prerequisites |-> <<>>],
          [id |-> "topic_1_2", title |-> "Control Structures",
           prerequisites |-> <<"Introduction to Programming">>],
          [id |-> "topic_1_3", title |-> "Functions and Scope",
           prerequisites |-> <<"Control Structures">>],
          [id |-> "topic_1_4", title |-> "Data Structures Basics",
           prerequisites |-> <<"Functions and Scope">>],
          [id |-> "topic_1_5", title |-> "Version Control with Git",
           prerequisites |-> <<>>] >>],
      [id |-> "module_2", title |-> "Frontend Development", order |-> 2, difficulty |-> "beginner",
       topics |-> <<
          [id |-> "topic_2_1", title |-> "HTML5 Fundamentals",
           prerequisites |-> <<>>],
          [id |-> "topic_2_2", title |-> "CSS3 Styling",
           prerequisites |-> <<"HTML5 Fundamentals">>],
          [id |-> "topic_2_3", title |-> "JavaScript for Web",
           prerequisites |-> <<"CSS3 Styling", "Functions and Scope">>],
          [id |-> "topic_2_4", title |-> "Modern CSS",
           prerequisites |-> <<"CSS3 Styling">>] >>],
      [id |-> "module_3", title |-> "React Framework", order |-> 3, difficulty |-> "intermediate",
       topics |-> <<
          [id |-> "topic_3_1", title |-> "React Fundamentals",
           prerequisites |-> <<"JavaScript for Web">>],
          [id |-> "topic_3_2", title |-> "State Management",
           prerequisites |-> <<"React Fundamentals">>],
          [id |-> "topic_3_3", title |-> "React Router",
           prerequisites |-> <<"State Management">>],
          [id |-> "topic_3_4", title |-> "API Integration",
           prerequisites |-> <<"State Management">>] >>],
      [id |-> "module_4", title |-> "Backend Development with Python", order |-> 4, difficulty |-> "intermediate",
       topics |-> <<
          [id |-> "topic_4_1", title |-> "Python Fundamentals",
           prerequisites |-> <<"Programming Fundamentals">>],
          [id |-> "topic_4_2", title |-> "Flask Framework",
           prerequisites |-> <<"Python Fundamentals">>],
          [id |-> "topic_4_3", title |-> "RESTful API Design",
           prerequisites |-> <<"Flask Framework">>],
          [id |-> "topic_4_4", title |-> "Database Integration",
           prerequisites |-> <<"Flask Framework">>],
          [id |-> "topic_4_5", title |-> "Authentication & Security",
           prerequisites |-> <<"RESTful API Design", "Database Integration">>] >>],
      [id |-> "module_5", title |-> "Database Management", order |-> 5, difficulty |-> "intermediate",
       topics |-> <<
          [id |-> "topic_5_1", title |-> "SQL Fundamentals",
           prerequisites |-> <<>>],
          [id |-> "topic_5_2", title |-> "Database Design",
           prerequisites |-> <<"SQL Fundamentals">>],
          [id |-> "topic_5_3", title |-> "NoSQL Databases",
           prerequisites |-> <<"Database Design">>],
          [id |-> "topic_5_4", title |-> "Database Optimization",
           prerequisites |-> <<"Database Design">>] >>],
      [id |-> "module_6", title |-> "Full Stack Integration", order |-> 6, difficulty |-> "advanced",
       topics |-> <<
          [id |-> "topic_6_1", title |-> "Frontend-Backend Communication",
           prerequisites |-> <<"API Integration", "RESTful API Design">>],
          [id |-> "topic_6_2", title |-> "File Upload & Management",
           prerequisites |-> <<"Frontend-Backend Communication">>],
          [id |-> "topic_6_3", title |-> "Real-time Features",
           prerequisites |-> <<"Frontend-Backend Communication">>],
          [id |-> "topic_6_4", title |-> "Testing Full Stack Apps",
           prerequisites |-> <<"Frontend-Backend Communication">>] >>],
      [id |-> "module_7", title |-> "Deployment & DevOps", order |-> 7, difficulty |-> "advanced",
       topics |-> <<
          [id |-> "topic_7_1", title |-> "Cloud Platforms",
           prerequisites |-> <<"Full Stack Integration">>],
          [id |-> "topic_7_2", title |-> "Docker Containerization",
           prerequisites |-> <<"Cloud Platforms">>],
          [id |-> "topic_7_3", title |-> "CI/CD Pipelines",
           prerequisites |-> <<"Docker Containerization">>],
          [id |-> "topic_7_4", title |-> "Monitoring & Logging",
           prerequisites |-> <<"CI/CD Pipelines">>] >>],
      [id |-> "module_8", title |-> "Capstone Project", order |-> 8, difficulty |-> "advanced",
       topics |-> <<
          [id |-> "topic_8_1", title |-> "Project Planning",
           prerequisites |-> <<"Deployment & DevOps">>],
          [id |-> "topic_8_2", title |-> "Backend Implementation",
           prerequisites |-> <<"Project Planning">>],
          [id |-> "topic_8_3", title |-> "Frontend Implementation",
           prerequisites |-> <<"Project Planning">>],
          [id |-> "topic_8_4", title |-> "Testing & Deployment",
           prerequisites |-> <<"Backend Implementation", "Frontend Implementation">>] >>] >>
     ELSE <<
      [id |-> "module_1", title |-> "Advanced React Patterns", order |-> 1, difficulty |-> "advanced",
       topics |-> <<
          [id |-> "topic_1_1", title |-> "Custom Hooks",
           prerequisites |-> <<>>],
          [id |-> "topic_1_2", title |-> "Context & Performance",
           prerequisites |-> <<"Custom Hooks">>],
          [id |-> "topic_1_3", title |-> "Advanced State Management",
           prerequisites |-> <<"Context & Performance">>] >>] >>]

\* the module is numbered from 0
generate_frontend_curriculum_order0(proficiency) ==
    [title |-> "Frontend Developer Path",
     target_role |-> "Frontend Developer",
     difficulty |-> proficiency,
     modules |->
       <<[id |-> "module_1", title |-> "HTML & CSS Mastery", order |-> 0,
          difficulty |-> "beginner",
          topics |-> <<
            [id |-> "topic_1_1", title |-> "Semantic HTML5",
             prerequisites |-> <<>>],
            [id |-> "topic_1_2", title |-> "Advanced CSS",
             prerequisites |-> <<"Semantic HTML5">>],
            [id |-> "topic_1_3", title |-> "CSS Preprocessors",
             prerequisites |-> <<"Advanced CSS">>] >>] >>]

generate_frontend_curriculum(proficiency) ==
  [title |-> "Frontend Developer Path",
   target_role |-> "Frontend Developer",
   difficulty |-> proficiency,
   modules |->
     <<
      [id |-> "module_1", title |-> "HTML & CSS Mastery", order |-> 1, difficulty |-> "beginner",
       topics |-> <<
          [id |-> "topic_1_1", title |-> "Semantic HTML5",
           prerequisites |-> <<>>],
          [id |-> "topic_1_2", title |-> "Advanced CSS",
           prerequisites |-> <<"Semantic HTML5">>],
          [id |-> "topic_1_3", title |-> "CSS Preprocessors",
           prerequisites |-> <<"Advanced CSS">>] >>] >>]

generate_backend_curriculum(proficiency) ==
  [title |-> "Backend Developer Path",
   target_role |-> "Backend Developer",
   difficulty |-> proficiency,
   modules |->
     IF proficiency = "beginner"
     THEN <<
      [id |-> "module_1", title |-> "Programming Fundamentals", order |-> 1, difficulty |-> "beginner",
       topics |-> <<
          [id |-> "topic_1_1", title |-> "Python Basics",
           prerequisites |-> <<>>],
          [id |-> "topic_1_2", title |-> "Control Flow",
           prerequisites |-> <<"Python Basics">>],
          [id |-> "topic_1_3", title |-> "Functions & Modules",
           prerequisites |-> <<"Control Flow">>],
          [id |-> "topic_1_4", title |-> "Data Structures",
           prerequisites |-> <<"Functions & Modules">>] >>],
      [id |-> "module_2", title |-> "Web Fundamentals", order |-> 2, difficulty |-> "beginner",
       topics |-> <<
          [id |-> "topic_2_1", title |-> "HTTP Basics",
           prerequisites |-> <<>>],
          [id |-> "topic_2_2", title |-> "REST API Concepts",
           prerequisites |-> <<"HTTP Basics">>] >>],
      [id |-> "module_3", title |-> "Flask Framework", order |-> 3, difficulty |-> "intermediate",
       topics |-> <<
          [id |-> "topic_3_1", title |-> "Flask Basics",
           prerequisites |-> <<"Web Fundamentals">>],
          [id |-> "topic_3_2", title |-> "RESTful API Development",
           prerequisites |-> <<"Flask Basics">>],
          [id |-> "topic_3_3", title |-> "Request Validation",
           prerequisites |-> <<"RESTful API Development">>] >>],
      [id |-> "module_4", title |-> "Database Integration", order |-> 4, difficulty |-> "intermediate",
       topics |-> <<
          [id |-> "topic_4_1", title |-> "SQL Fundamentals",
           prerequisites |-> <<>>],
          [id |-> "topic_4_2", title |-> "SQLAlchemy ORM",
           prerequisites |-> <<"SQL Fundamentals">>],
          [id |-> "topic_4_3", title |-> "Database Design",
           prerequisites |-> <<"SQLAlchemy ORM">>] >>],
      [id |-> "module_5", title |-> "Authentication & Security", order |-> 5, difficulty |-> "intermediate",
       topics |-> <<
          [id |-> "topic_5_1", title |-> "Password Security",
           prerequisites |-> <<"Database Integration">>],
          [id |-> "topic_5_2", title |-> "JWT Authentication",
           prerequisites |-> <<"Password Security">>],
          [id |-> "topic_5_3", title |-> "API Security",
           prerequisites |-> <<"JWT Authentication">>] >>],
      [id |-> "module_6", title |-> "Advanced Backend Topics", order |-> 6, difficulty |-> "advanced",
       topics |-> <<
          [id |-> "topic_6_1", title |-> "Caching Strategies",
           prerequisites |-> <<"API Security">>],
          [id |-> "topic_6_2", title |-> "Message Queues",
           prerequisites |-> <<"Caching Strategies">>],
          [id |-> "topic_6_3", title |-> "Microservices Architecture",
           prerequisites |-> <<"Message Queues">>] >>] >>
     ELSE <<
      [id |-> "module_1", title |-> "Advanced Backend Patterns", order |-> 1, difficulty |-> "advanced",
       topics |-> <<
          [id |-> "topic_1_1", title |-> "Design Patterns",
           prerequisites |-> <<>>],
          [id |-> "topic_1_2", title |-> "Performance Optimization",
           prerequisites |-> <<"Design Patterns">>] >>] >>]

generate_datascience_curriculum(proficiency) ==
  [title |-> "Data Scientist Path",
   target_role |-> "Data Scientist",
   difficulty |-> proficiency,
   modules |->
     IF proficiency = "beginner"
     THEN <<
      [id |-> "module_1", title |-> "Python for Data Science", order |-> 1, difficulty |-> "beginner",
       topics |-> <<
          [id |-> "topic_1_1", title |-> "Python Basics",
           prerequisites |-> <<>>],
          [id |-> "topic_1_2", title |-> "NumPy Fundamentals",
           prerequisites |-> <<"Python Basics">>],
          [id |-> "topic_1_3", title |-> "Pandas Basics",
           prerequisites |-> <<"NumPy Fundamentals">>] >>],
      [id |-> "module_2", title |-> "Data Analysis", order |-> 2, difficulty |-> "beginner",
       topics |-> <<
          [id |-> "topic_2_1", title |-> "Data Exploration",
           prerequisites |-> <<"Pandas Basics">>],
          [id |-> "topic_2_2", title |-> "Data Visualization",
           prerequisites |-> <<"Data Exploration">>] >>],
      [id |-> "module_3", title |-> "Statistics Fundamentals", order |-> 3, difficulty |-> "intermediate",
       topics |-> <<
          [id |-> "topic_3_1", title |-> "Descriptive Statistics",
           prerequisites |-> <<>>],
          [id |-> "topic_3_2", title |-> "Probability",
           prerequisites |-> <<"Descriptive Statistics">>],
          [id |-> "topic_3_3", title |-> "Inferential Statistics",
           prerequisites |-> <<"Probability">>] >>],
      [id |-> "module_4", title |-> "Machine Learning Basics", order |-> 4, difficulty |-> "intermediate",
       topics |-> <<
          [id |-> "topic_4_1", title |-> "ML Fundamentals",
           prerequisites |-> <<"Statistics Fundamentals">>],
          [id |-> "topic_4_2", title |-> "Linear Regression",
           prerequisites |-> <<"ML Fundamentals">>],
          [id |-> "topic_4_3", title |-> "Classification",
           prerequisites |-> <<"Linear Regression">>] >>] >>
     ELSE <<
      [id |-> "module_1", title |-> "Advanced Machine Learning", order |-> 1, difficulty |-> "advanced",
       topics |-> <<
          [id |-> "topic_1_1", title |-> "Deep Learning",
           prerequisites |-> <<>>] >>] >>]

generate_mobile_curriculum(proficiency) ==
  [title |-> "Mobile App Developer Path",
   target_role |-> "Mobile App Developer",
   difficulty |-> proficiency,
   modules |->
     IF proficiency = "beginner"
     THEN <<
      [id |-> "module_1", title |-> "Mobile Development Fundamentals", order |-> 1, difficulty |-> "beginner",
       topics |-> <<
          [id |-> "topic_1_1", title |-> "Mobile App Architecture",
           prerequisites |-> <<>>],
          [id |-> "topic_1_2", title |-> "React Native Basics",
           prerequisites |-> <<"Mobile App Architecture">>],
          [id |-> "topic_1_3", title |-> "Navigation",
           prerequisites |-> <<"React Native Basics">>] >>],
      [id |-> "module_2", title |-> "State Management", order |-> 2, difficulty |-> "intermediate",
       topics |-> <<
          [id |-> "topic_2_1", title |-> "Context API",
           prerequisites |-> <<"Navigation">>],
          [id |-> "topic_2_2", title |-> "Redux",
           prerequisites |-> <<"Context API">>] >>],
      [id |-> "module_3", title |-> "Native Features", order |-> 3, difficulty |-> "intermediate",
       topics |-> <<
          [id |-> "topic_3_1", title |-> "Camera & Media",
           prerequisites |-> <<"State Management">>],
          [id |-> "topic_3_2", title |-> "Location Services",
           prerequisites |-> <<"Camera & Media">>],
          [id |-> "topic_3_3", title |-> "Push Notifications",
           prerequisites |-> <<"Location Services">>] >>] >>
     ELSE <<
      [id |-> "module_1", title |-> "Advanced Mobile Development", order |-> 1, difficulty |-> "advanced",
       topics |-> <<
          [id |-> "topic_1_1", title |-> "Performance Optimization",
           prerequisites |-> <<>>] >>] >>]

generate_devops_curriculum(proficiency) ==
  [title |-> "DevOps Engineer Path",
   target_role |-> "DevOps Engineer",
   difficulty |-> proficiency,
   modules |->
     IF proficiency = "beginner"
     THEN <<
      [id |-> "module_1", title |-> "Linux & Command Line", order |-> 1, difficulty |-> "beginner",
       topics |-> <<
          [id |-> "topic_1_1", title |-> "Linux Basics",
           prerequisites |-> <<>>],
          [id |-> "topic_1_2", title |-> "Shell Scripting",
           prerequisites |-> <<"Linux Basics">>] >>],
      [id |-> "module_2", title |-> "Version Control", order |-> 2, difficulty |-> "beginner",
       topics |-> <<
          [id |-> "topic_2_1", title |-> "Git Fundamentals",
           prerequisites |-> <<>>],
          [id |-> "topic_2_2", title |-> "Git Workflows",
           prerequisites |-> <<"Git Fundamentals">>] >>],
      [id |-> "module_3", title |-> "Containerization", order |-> 3, difficulty |-> "intermediate",
       topics |-> <<
          [id |-> "topic_3_1", title |-> "Docker Basics",
           prerequisites |-> <<"Version Control">>],
          [id |-> "topic_3_2", title |-> "Container Orchestration",
           prerequisites |-> <<"Docker Basics">>] >>],
      [id |-> "module_4", title |-> "CI/CD Pipelines", order |-> 4, difficulty |-> "intermediate",
       topics |-> <<
          [id |-> "topic_4_1", title |-> "CI/CD Concepts",
           prerequisites |-> <<"Containerization">>],
          [id |-> "topic_4_2", title |-> "GitHub Actions",
           prerequisites |-> <<"CI/CD Concepts">>] >>] >>
     ELSE <<
      [id |-> "module_1", title |-> "Advanced DevOps", order |-> 1, difficulty |-> "advanced",
       topics |-> <<
          [id |-> "topic_1_1", title |-> "Kubernetes Advanced",
           prerequisites |-> <<>>] >>] >>]

\* the "ai" rule is tried before the "mobile" rule
build_curriculum_ai_first(target_role, skill_gaps, proficiency, learning_pace) ==
    LET role_key == role_key_of(target_role)
    IN  IF role_key = "fullstack" \/ role_key = "full_stack_developer"
        THEN generate_fullstack_curriculum(proficiency)
        ELSE IF role_key = "frontend" \/ str_in("frontend", role_key)
        THEN generate_frontend_curriculum(proficiency)
        ELSE IF role_key = "backend" \/ str_in("backend", role_key)
        THEN generate_backend_curriculum(proficiency)
        ELSE IF str_in("data", role_key) \/ role_key = "data_scientist"
        THEN generate_datascience_curriculum(proficiency)
        ELSE IF str_in("ai", role_key) \/ role_key = "ai_engineer"
        THEN [generate_datascience_curriculum(proficiency) EXCEPT
                 !.title = "AI Engineer Path",
                 !.target_role = "AI Engineer"]
        ELSE IF str_in("mobile", role_key) \/ role_key = "mobile_app_developer"
        THEN generate_mobile_curriculum(proficiency)
        ELSE IF str_in("machine_learning", role_key) \/ str_in("ml", role_key)
        THEN [generate_datascience_curriculum(proficiency) EXCEPT
                 !.title = "Machine Learning Engineer Path",
                 !.target_role = "Machine Learning Engineer"]
        ELSE IF str_in("devops", role_key)
        THEN generate_devops_curriculum(proficiency)
        ELSE generate_fullstack_curriculum(proficiency)

build_curriculum(target_role, skill_gaps, proficiency, learning_pace) ==
    LET role_key == role_key_of(target_role)
    IN  IF role_key = "fullstack" \/ role_key = "full_stack_developer"
        THEN generate_fullstack_curriculum(proficiency)
        ELSE IF role_key = "frontend" \/ str_in("frontend", role_key)
        THEN generate_frontend_curriculum(proficiency)
        ELSE IF role_key = "backend" \/ str_in("backend", role_key)
        THEN generate_backend_curriculum(proficiency)
        ELSE IF str_in("data", role_key) \/ role_key = "data_scientist"
        THEN generate_datascience_curriculum(proficiency)
        ELSE IF str_in("mobile", role_key) \/ role_key = "mobile_app_developer"
        THEN generate_mobile_curriculum(proficiency)
        ELSE IF str_in("machine_learning", role_key) \/ str_in("ml", role_key)
        THEN [generate_datascience_curriculum(proficiency) EXCEPT
                 !.title = "Machine Learning Engineer Path",
                 !.target_role = "Machine Learning Engineer"]
        ELSE IF str_in("ai", role_key) \/ role_key = "ai_engineer"
        THEN [generate_datascience_curriculum(proficiency) EXCEPT
                 !.title = "AI Engineer Path",
                 !.target_role = "AI Engineer"]
        ELSE IF str_in("devops", role_key)
        THEN generate_devops_curriculum(proficiency)
        ELSE generate_fullstack_curriculum(proficiency)

\* for module in curriculum['modules']: for topic in module['topics']:
\*     topic = f(topic)
MapTopics(curriculum, f(_)) ==
    [curriculum EXCEPT !.modules =
        [i \in 1..Len(curriculum.modules) |->
            [curriculum.modules[i] EXCEPT !.topics =
                [j \in 1..Len(curriculum.modules[i].topics) |->
                    f(curriculum.modules[i].topics[j])]]]]

\* the prerequisites are compared without lower-casing
optimize_learning_sequence_case_sensitive(curriculum, current_skills) ==
    LET mark(topic) ==
            LET prerequisites == Get(topic, "prerequisites", <<>>)
                prereqs_met == All(prerequisites, LAMBDA p : InList(p, current_skills))
            IN  SetItem(topic, "locked", ~prereqs_met)
    IN  MapTopics(curriculum, mark)

optimize_learning_sequence(curriculum, current_skills) ==
    LET current_skills_lower == lower_all(current_skills)
        mark(topic) ==
            LET prerequisites == Get(topic, "prerequisites", <<>>)
                prereqs_met == All(prerequisites,
                                   LAMBDA p : InList(lower(p), current_skills_lower))
            IN  SetItem(topic, "locked", ~prereqs_met)
    IN  MapTopics(curriculum, mark)

\* the capitalised spelling 'Videos' is not looked for
fetch_resources_for_topic_videos_only(topic_name, preferred_content) ==
    (IF InList("videos", preferred_content)
     THEN <<[type |-> "video",
             title |-> topic_name \o " - Complete Tutorial",
             url |-> "https://youtube.com/search?q="
                     \o replace(topic_name, " ", "+") \o "+tutorial",
             duration |-> "2-3 hours",
             platform |-> "YouTube"]>>
     ELSE <<>>)
    \o
    (IF InList("articles", preferred_content) \/ InList("Articles", preferred_content)
     THEN <<[type |-> "article",
             title |-> "Understanding " \o topic_name,
             url |-> "https://developer.mozilla.org/en-US/search?q="
                     \o replace(topic_name, " ", "+"),
             duration |-> "30-45 min read",
             platform |-> "MDN Docs"]>>
     ELSE <<>>)
    \o
    (IF InList("interactive", preferred_content)
        \/ InList("Interactive Coding", preferred_content)
     THEN <<[type |-> "interactive",
             title |-> topic_name \o " - Interactive Exercises",
             url |-> "https://www.freecodecamp.org/learn",
             duration |-> "1-2 hours",
             platform |-> "FreeCodeCamp"]>>
     ELSE <<>>)
    \o
    <<[type |-> "documentation",
       title |-> topic_name \o " Official Docs",
       url |-> "#",
       duration |-> "Reference",
       platform |-> "Official Documentation"]>>

fetch_resources_for_topic(topic_name, preferred_content) ==
    (IF InList("videos", preferred_content) \/ InList("Videos", preferred_content)
     THEN <<[type |-> "video",
             title |-> topic_name \o " - Complete Tutorial",
             url |-> "https://youtube.com/search?q="
                     \o replace(topic_name, " ", "+") \o "+tutorial",
             duration |-> "2-3 hours",
             platform |-> "YouTube"]>>
     ELSE <<>>)
    \o
    (IF InList("articles", preferred_content) \/ InList("Articles", preferred_content)
     THEN <<[type |-> "article",
             title |-> "Understanding " \o topic_name,
             url |-> "https://developer.mozilla.org/en-US/search?q="
                     \o replace(topic_name, " ", "+"),
             duration |-> "30-45 min read",
             platform |-> "MDN Docs"]>>
     ELSE <<>>)
    \o
    (IF InList("interactive", preferred_content)
        \/ InList("Interactive Coding", preferred_content)
     THEN <<[type |-> "interactive",
             title |-> topic_name \o " - Interactive Exercises",
             url |-> "https://www.freecodecamp.org/learn",
             duration |-> "1-2 hours",
             platform |-> "FreeCodeCamp"]>>
     ELSE <<>>)
    \o
    <<[type |-> "documentation",
       title |-> topic_name \o " Official Docs",
       url |-> "#",
       duration |-> "Reference",
       platform |-> "Official Documentation"]>>

add_personalized_resources(curriculum, preferred_content) ==
    LET enrich(topic) ==
            SetItem(topic, "resources",
                    fetch_resources_for_topic(topic.title, preferred_content))
    IN  MapTopics(curriculum, enrich)

\* round(x, 1) of x hundredths, in tenths (ties to the even tenth)
round1(x) ==
    LET q == x \div 10
        r == x % 10
    IN  IF r < 5 THEN q
        ELSE IF r > 5 THEN q + 1
        ELSE IF q % 2 = 0 THEN q ELSE q + 1

\* a + b for fractions or errors
frac_add(a, b) ==
    IF IsError(a) THEN a
    ELSE IF IsError(b) THEN b
    ELSE IF a.den = b.den THEN [num |-> a.num + b.num, den |-> a.den]
    ELSE [num |-> a.num * b.den + b.num * a.den, den |-> a.den * b.den]

\* x < n for a fraction x and an integer n
frac_lt(x, n) == IF x.den > 0 THEN x.num < n * x.den ELSE x.num > n * x.den

\* number of topics in the modules before module i
RECURSIVE TopicOffset(_, _)
TopicOffset(curriculum, i) ==
    IF i <= 1 THEN 0
    ELSE TopicOffset(curriculum, i - 1) + Len(curriculum.modules[i - 1].topics)

TopicCount(curriculum) == TopicOffset(curriculum, Len(curriculum.modules) + 1)

\* the advanced multiplier is 1.7
multipliers_advanced_17 == [beginner |-> 150, intermediate |-> 100, advanced |-> 170]

\* hundredths of an hour per base hour
multipliers == [beginner |-> 150, intermediate |-> 100, advanced |-> 70]

\* a module's hours are the sum of the base hours, without the multiplier
calculate_time_estimates_base_hours(curriculum, daily_hours, proficiency, draws) ==
    LET multiplier == Get(multipliers, proficiency, 100)
        n == Len(curriculum.modules)
        adjusted_hours(i, j) == draws[TopicOffset(curriculum, i) + j] * multiplier
        module_hours(i) ==
            sum([j \in 1..Len(curriculum.modules[i].topics) |->
                    draws[TopicOffset(curriculum, i) + j] * 100])
        days(i) ==
            IF daily_hours > 0 THEN true_div(module_hours(i), daily_hours * 10)
            ELSE Number(0)
        weeks(i) ==
            IF daily_hours > 0 THEN true_div(module_hours(i), daily_hours * 10 * 7)
            ELSE Number(0)
        total_weeks[i \in 0..n] ==
            IF i = 0 THEN Number(0) ELSE frac_add(total_weeks[i - 1], weeks(i))
        modules ==
            [i \in 1..n |->
                [k \in DOMAIN curriculum.modules[i]
                       \cup {"estimated_hours", "estimated_days"} |->
                    IF k = "topics"
                    THEN [j \in 1..Len(curriculum.modules[i].topics) |->
                            SetItem(curriculum.modules[i].topics[j], "estimated_hours",
                                    round1(adjusted_hours(i, j)))]
                    ELSE IF k = "estimated_hours" THEN round1(module_hours(i))
                    ELSE IF k = "estimated_days" THEN int(days(i))
                    ELSE curriculum.modules[i][k]]]
    IN  IF \E i \in 1..n : IsError(days(i)) THEN [error |-> ZeroDivisionError]
        ELSE IF IsError(total_weeks[n]) THEN total_weeks[n]
        ELSE [k \in DOMAIN curriculum
                    \cup {"total_estimated_weeks", "total_estimated_hours"} |->
                 IF k = "modules" THEN modules
                 ELSE IF k = "total_estimated_weeks" THEN int(total_weeks[n])
                 ELSE IF k = "total_estimated_hours"
                 THEN sum([i \in 1..n |-> modules[i].estimated_hours])
                 ELSE curriculum[k]]

\* the weeks of each module are truncated before they are added
calculate_time_estimates_floor_per_module(curriculum, daily_hours, proficiency, draws) ==
    LET multiplier == Get(multipliers, proficiency, 100)
        n == Len(curriculum.modules)
        adjusted_hours(i, j) == draws[TopicOffset(curriculum, i) + j] * multiplier
        module_hours(i) ==
            sum([j \in 1..Len(curriculum.modules[i].topics) |-> adjusted_hours(i, j)])
        days(i) ==
            IF daily_hours > 0 THEN true_div(module_hours(i), daily_hours * 10)
            ELSE Number(0)
        weeks(i) ==
            IF daily_hours > 0 THEN true_div(module_hours(i), daily_hours * 10 * 7)
            ELSE Number(0)
        total_weeks[i \in 0..n] ==
            IF i = 0 THEN Number(0)
            ELSE frac_add(total_weeks[i - 1], Number(int(weeks(i))))
        modules ==
            [i \in 1..n |->
                [k \in DOMAIN curriculum.modules[i]
                       \cup {"estimated_hours", "estimated_days"} |->
                    IF k = "topics"
                    THEN [j \in 1..Len(curriculum.modules[i].topics) |->
                            SetItem(curriculum.modules[i].topics[j], "estimated_hours",
                                    round1(adjusted_hours(i, j)))]
                    ELSE IF k = "estimated_hours" THEN round1(module_hours(i))
                    ELSE IF k = "estimated_days" THEN int(days(i))
                    ELSE curriculum.modules[i][k]]]
    IN  IF \E i \in 1..n : IsError(days(i)) THEN [error |-> ZeroDivisionError]
        ELSE IF IsError(total_weeks[n]) THEN total_weeks[n]
        ELSE [k \in DOMAIN curriculum
                    \cup {"total_estimated_weeks", "total_estimated_hours"} |->
                 IF k = "modules" THEN modules
                 ELSE IF k = "total_estimated_weeks" THEN int(total_weeks[n])
                 ELSE IF k = "total_estimated_hours"
                 THEN sum([i \in 1..n |-> modules[i].estimated_hours])
                 ELSE curriculum[k]]

\* draws[k] is the value random.randint(2, 8) returns for the k-th topic
calculate_time_estimates(curriculum, daily_hours, proficiency, draws) ==
    LET multiplier == Get(multipliers, proficiency, 100)
        n == Len(curriculum.modules)
        adjusted_hours(i, j) == draws[TopicOffset(curriculum, i) + j] * multiplier
        module_hours(i) ==
            sum([j \in 1..Len(curriculum.modules[i].topics) |-> adjusted_hours(i, j)])
        days(i) ==
            IF daily_hours > 0 THEN true_div(module_hours(i), daily_hours * 10)
            ELSE Number(0)
        weeks(i) ==
            IF daily_hours > 0 THEN true_div(module_hours(i), daily_hours * 10 * 7)
            ELSE Number(0)
        total_weeks[i \in 0..n] ==
            IF i = 0 THEN Number(0) ELSE frac_add(total_weeks[i - 1], weeks(i))
        modules ==
            [i \in 1..n |->
                [k \in DOMAIN curriculum.modules[i]
                       \cup {"estimated_hours", "estimated_days"} |->
                    IF k = "topics"
                    THEN [j \in 1..Len(curriculum.modules[i].topics) |->
                            SetItem(curriculum.modules[i].topics[j], "estimated_hours",
                                    round1(adjusted_hours(i, j)))]
                    ELSE IF k = "estimated_hours" THEN round1(module_hours(i))
                    ELSE IF k = "estimated_days" THEN int(days(i))
                    ELSE curriculum.modules[i][k]]]
    IN  IF \E i \in 1..n : IsError(days(i)) THEN [error |-> ZeroDivisionError]
        ELSE IF IsError(total_weeks[n]) THEN total_weeks[n]
        ELSE [k \in DOMAIN curriculum
                    \cup {"total_estimated_weeks", "total_estimated_hours"} |->
                 IF k = "modules" THEN modules
                 ELSE IF k = "total_estimated_weeks" THEN int(total_weeks[n])
                 ELSE IF k = "total_estimated_hours"
                 THEN sum([i \in 1..n |-> modules[i].estimated_hours])
                 ELSE curriculum[k]]

\* the resources are added to the curriculum as built, not as sequenced
generate_personalized_path_unsequenced(user_data, draws) ==
    LET skill_gaps == analyze_skill_gaps(user_data.current_skills, user_data.target_role)
        proficiency == determine_proficiency_level(user_data.current_skills,
                                                   user_data.assessment_score)
        curriculum == build_curriculum(user_data.target_role, skill_gaps,
                                       proficiency, user_data.learning_pace)
        enriched_curriculum ==
            add_personalized_resources(curriculum, user_data.preferred_content)
        final_curriculum ==
            calculate_time_estimates(enriched_curriculum, user_data.daily_hours,
                                     proficiency, draws)
    IN  IF IsError(skill_gaps) THEN skill_gaps ELSE final_curriculum

generate_personalized_path(user_data, draws) ==
    LET skill_gaps == analyze_skill_gaps(user_data.current_skills, user_data.target_role)
        proficiency == determine_proficiency_level(user_data.current_skills,
                                                   user_data.assessment_score)
        curriculum == build_curriculum(user_data.target_role, skill_gaps,
                                       proficiency, user_data.learning_pace)
        optimized_curriculum ==
            optimize_learning_sequence(curriculum, user_data.current_skills)
        enriched_curriculum ==
            add_personalized_resources(optimized_curriculum, user_data.preferred_content)
        final_curriculum ==
            calculate_time_estimates(enriched_curriculum, user_data.daily_hours,
                                     proficiency, draws)
    IN  IF IsError(skill_gaps) THEN skill_gaps ELSE final_curriculum

----------------------------------------------------------------------------
(* AIRecommender *)

_is_completed(topic_title, completed_ids, path) ==
    \E i \in 1..Len(path.modules) :
        \E j \in 1..Len(path.modules[i].topics) :
            /\ path.modules[i].topics[j].title = topic_title
            /\ path.modules[i].topics[j].id \in completed_ids

\* the (module, topic) pairs in the order the nested loops visit them
RECURSIVE Scan(_, _)
Scan(path, i) ==
    IF i > Len(path.modules) THEN <<>>
    ELSE [j \in 1..Len(path.modules[i].topics) |->
             [module |-> path.modules[i],
              topic |-> path.modules[i].topics[j]]]
         \o Scan(path, i + 1)

\* a < b for strings of lower-case letters
RECURSIVE str_lt(_, _)
str_lt(a, b) ==
    LET ord(c) == CHOOSE i \in 1..Len(LowerChars) : CharAt(LowerChars, i) = c
    IN  IF Len(b) = 0 THEN FALSE
        ELSE IF Len(a) = 0 THEN TRUE
        ELSE IF CharAt(a, 1) = CharAt(b, 1)
        THEN str_lt(SubSeq(a, 2, Len(a)), SubSeq(b, 2, Len(b)))
        ELSE ord(CharAt(a, 1)) < ord(CharAt(b, 1))

\* xs.sort(key=lambda x: x['priority'], reverse=True): stable, largest key first
sort_by_priority_reverse(xs) ==
    LET sorted(list) ==
            LET n == Len(list)
                \* list[j] is placed before list[i]: its key is larger, or the
                \* keys are equal and it came first
                precedes(j, i) ==
                    \/ str_lt(list[i].priority, list[j].priority)
                    \/ (~str_lt(list[j].priority, list[i].priority) /\ j < i)
                position(i) == 1 + Cardinality({j \in 1..n : precedes(j, i)})
            IN  [p \in 1..n |-> list[CHOOSE i \in 1..n : position(i) = p]]
    \* the list is evaluated once, then sorted
    IN  CHOOSE result \in {sorted(list) : list \in {xs}} : TRUE

\* the loop with the prerequisite check left out
collect_recommendations_static(progress, skills, path) ==
    LET ready(e) ==
            /\ e.topic.id \notin progress
            /\ ~Get(e.topic, "locked", FALSE)
        recommendation(e) ==
            [topic_id |-> e.topic.id,
             topic_title |-> e.topic.title,
             module_title |-> e.module.title,
             reason |-> "Prerequisites completed, ready to start",
             priority |-> "high",
             estimated_hours |-> Get(e.topic, "estimated_hours", 30)]
        picked == SelectSeq(Scan(path, 1), ready)
    IN  [i \in 1..Len(picked) |-> recommendation(picked[i])]

\* the loop of recommend_next_topics: the list before it is sorted
collect_recommendations(progress, skills, path) ==
    LET ready(e) ==
            /\ e.topic.id \notin progress
            /\ LET prereqs == Get(e.topic, "prerequisites", <<>>)
                   prereqs_met ==
                       All(prereqs, LAMBDA p : InList(p, skills)
                                               \/ _is_completed(p, progress, path))
               IN  prereqs_met /\ ~Get(e.topic, "locked", FALSE)
        recommendation(e) ==
            [topic_id |-> e.topic.id,
             topic_title |-> e.topic.title,
             module_title |-> e.module.title,
             reason |-> "Prerequisites completed, ready to start",
             priority |-> "high",
             estimated_hours |-> Get(e.topic, "estimated_hours", 30)]
        picked == SelectSeq(Scan(path, 1), ready)
    IN  [i \in 1..Len(picked) |-> recommendation(picked[i])]

\* the list is cut after 6 entries
recommend_next_topics_top6(progress, skills, path) ==
    LET sorted == sort_by_priority_reverse(collect_recommendations(progress, skills, path))
    IN  SubSeq(sorted, 1, Min(6, Len(sorted)))

recommend_next_topics(progress, skills, path) ==
    LET sorted == sort_by_priority_reverse(collect_recommendations(progress, skills, path))
    IN  SubSeq(sorted, 1, Min(5, Len(sorted)))

\* a topic is taken whenever the day is not yet full
RECURSIVE fill_day_unchecked(_, _, _, _, _)
fill_day_unchecked(upcoming_topics, hours_per_day, topic_index, daily_topics, day_hours) ==
    IF day_hours < hours_per_day /\ topic_index < Len(upcoming_topics)
    THEN LET topic == upcoming_topics[topic_index + 1]
             topic_hours == Get(topic, "estimated_hours", 20)
         IN  fill_day_unchecked(upcoming_topics, hours_per_day, topic_index + 1,
                                Append(daily_topics, topic), day_hours + topic_hours)
    ELSE [daily_topics |-> daily_topics,
          day_hours |-> day_hours,
          topic_index |-> topic_index]

\* the while loop of suggest_study_schedule: one day is filled, from the
\* a topic that does not fit is passed over and the next one is tried
RECURSIVE fill_day_skipping(_, _, _, _, _)
fill_day_skipping(upcoming_topics, hours_per_day, topic_index, daily_topics, day_hours) ==
    IF day_hours < hours_per_day /\ topic_index < Len(upcoming_topics)
    THEN LET topic == upcoming_topics[topic_index + 1]
             topic_hours == Get(topic, "estimated_hours", 20)
         IN  IF day_hours + topic_hours <= hours_per_day
             THEN fill_day_skipping(upcoming_topics, hours_per_day, topic_index + 1,
                                    Append(daily_topics, topic), day_hours + topic_hours)
             ELSE fill_day_skipping(upcoming_topics, hours_per_day, topic_index + 1,
                                    daily_topics, day_hours)
    ELSE [daily_topics |-> daily_topics,
          day_hours |-> day_hours,
          topic_index |-> topic_index]

\* topic after topic_index on; hours are in tenths of an hour
RECURSIVE fill_day(_, _, _, _, _)
fill_day(upcoming_topics, hours_per_day, topic_index, daily_topics, day_hours) ==
    IF day_hours < hours_per_day /\ topic_index < Len(upcoming_topics)
    THEN LET topic == upcoming_topics[topic_index + 1]
             topic_hours == Get(topic, "estimated_hours", 20)
         IN  IF day_hours + topic_hours <= hours_per_day
             THEN fill_day(upcoming_topics, hours_per_day, topic_index + 1,
                           Append(daily_topics, topic), day_hours + topic_hours)
             ELSE [daily_topics |-> daily_topics,
                   day_hours |-> day_hours,
                   topic_index |-> topic_index]
    ELSE [daily_topics |-> daily_topics,
          day_hours |-> day_hours,
          topic_index |-> topic_index]

days_of_week ==
    <<"Monday", "Tuesday", "Wednesday", "Thursday", "Friday", "Saturday", "Sunday">>

\* learning_pace is not read
suggest_study_schedule(available_hours, learning_pace, upcoming_topics) ==
    LET hours_per_day == available_hours
        loop[d \in 0..Len(days_of_week)] ==
            IF d = 0
            THEN [schedule |-> [weekly_plan |-> <<>>,
                                daily_breakdown |-> <<>>,
                                total_hours |-> 0],
                  topic_index |-> 0,
                  done |-> FALSE]
            ELSE LET before == loop[d - 1]
                     day == fill_day(upcoming_topics, hours_per_day,
                                     before.topic_index, <<>>, 0)
                 IN  IF before.done \/ before.topic_index >= Len(upcoming_topics)
                     THEN [before EXCEPT !.done = TRUE]
                     ELSE IF day.daily_topics # <<>>
                     THEN [schedule |->
                               [before.schedule EXCEPT
                                   !.daily_breakdown =
                                       SetItem(@, days_of_week[d],
                                               [topics |-> day.daily_topics,
                                                total_hours |-> day.day_hours]),
                                   !.total_hours = @ + day.day_hours],
                           topic_index |-> day.topic_index,
                           done |-> FALSE]
                     ELSE [before EXCEPT !.topic_index = day.topic_index]
    IN  loop[Len(days_of_week)].schedule

----------------------------------------------------------------------------
(* AIAdaptiveLearning *)

\* round(x, k) of a fraction x with a positive denominator, in units of
\* 1/scale where scale = 10^k (ties go to the even neighbour)
round_to(x, scale) ==
    LET n == x.num * scale
        q == n \div x.den
        r == n % x.den
    IN  IF 2 * r < x.den THEN q
        ELSE IF 2 * r > x.den THEN q + 1
        ELSE IF q % 2 = 0 THEN q ELSE q + 1

\* x >= n for a fraction x with a positive denominator and an integer n
frac_ge(x, n) == x.num >= n * x.den

\* the sum is divided by the number of recent logs
analyze_learning_velocity_per_log(activity_logs) ==
    LET n == Len(activity_logs)
        recent_logs == SubSeq(activity_logs, IF n > 7 THEN n - 6 ELSE 1, n)
        topics_completed ==
            sum([i \in 1..Len(recent_logs) |-> Get(recent_logs[i], "topics_completed", 0)])
        velocity == true_div(topics_completed, Len(recent_logs))
        speed == IF frac_ge(velocity, 2) THEN "fast"
                 ELSE IF frac_ge(velocity, 1) THEN "moderate"
                 ELSE "slow"
    IN  IF n = 0 THEN [velocity |-> "insufficient_data", trend |-> "N/A"]
        ELSE [velocity |-> speed,
              topics_per_day |-> round_to(velocity, 100),
              topics_per_week |-> round_to(times(velocity, 7), 10),
              recommendation |->
                  IF speed = "fast" THEN "Consider increasing difficulty"
                  ELSE IF speed = "moderate" THEN "Good pace, maintain consistency"
                  ELSE "Consider reducing complexity or increasing time",
              trend |-> "stable"]

\* topics_per_day is in hundredths of a topic, topics_per_week in tenths
analyze_learning_velocity(activity_logs) ==
    LET n == Len(activity_logs)
        recent_logs == SubSeq(activity_logs, IF n > 7 THEN n - 6 ELSE 1, n)
        topics_completed ==
            sum([i \in 1..Len(recent_logs) |-> Get(recent_logs[i], "topics_completed", 0)])
        velocity == true_div(topics_completed, 7)
        speed == IF frac_ge(velocity, 2) THEN "fast"
                 ELSE IF frac_ge(velocity, 1) THEN "moderate"
                 ELSE "slow"
    IN  IF n = 0 THEN [velocity |-> "insufficient_data", trend |-> "N/A"]
        ELSE [velocity |-> speed,
              topics_per_day |-> round_to(velocity, 100),
              topics_per_week |-> round_to(times(velocity, 7), 10),
              recommendation |->
                  IF speed = "fast" THEN "Consider increasing difficulty"
                  ELSE IF speed = "moderate" THEN "Good pace, maintain consistency"
                  ELSE "Consider reducing complexity or increasing time",
              trend |-> "stable"]

\* x > n for a fraction x and an integer n
frac_gt(x, n) == IF x.den > 0 THEN x.num > n * x.den ELSE x.num < n * x.den

\* times are in minutes; the call ends with the list it returns, given as
\* [struggling_topics |-> list], or with the error of a division by zero
detect_struggling_topics(progress_data) ==
    LET n == Len(progress_data)
        loop[i \in 0..n] ==
            IF i = 0 THEN <<>>
            ELSE LET struggling_topics == loop[i - 1]
                     progress == progress_data[i]
                     expected_time == Get(progress, "expected_minutes", 120)
                     actual_time == Get(progress, "time_spent_minutes", 0)
                     slow == 2 * actual_time > 3 * expected_time
                     time_ratio == true_div(actual_time, expected_time)
                     after_time ==
                         IF slow
                         THEN Append(struggling_topics,
                                  [topic_id |-> progress.topic_id,
                                   topic_title |-> Get(progress, "topic_title", "Unknown"),
                                   time_ratio |-> time_ratio,
                                   suggestion |->
                                       "Review prerequisites or seek additional resources"])
                         ELSE struggling_topics
                     flagged == \E k \in 1..Len(after_time) :
                                    after_time[k].topic_id = progress.topic_id
                 IN  IF struggling_topics = <<[error |-> ZeroDivisionError]>>
                     THEN struggling_topics
                     ELSE IF slow /\ IsError(time_ratio) THEN <<time_ratio>>
                     ELSE IF "difficulty_feedback" \in DOMAIN progress
                             /\ progress.difficulty_feedback = "too_hard"
                             /\ ~flagged
                     THEN Append(after_time,
                              [topic_id |-> progress.topic_id,
                               topic_title |-> Get(progress, "topic_title", "Unknown"),
                               user_feedback |-> "marked_as_difficult",
                               suggestion |-> "Consider easier alternative resources"])
                     ELSE after_time
    IN  IF loop[n] = <<[error |-> ZeroDivisionError]>>
        THEN [error |-> ZeroDivisionError]
        ELSE [struggling_topics |-> loop[n]]

\* an average of exactly 0.9 accelerates too
adapt_curriculum_from_09(user_performance, current_path) ==
    LET scores == [i \in 1..Len(user_performance) |->
                      Get(user_performance[i], "score", 0)]
        avg_performance ==
            IF Len(user_performance) # 0
            THEN true_div(sum(scores), Len(user_performance))
            ELSE Number(0)
        accelerate == [type |-> "accelerate",
                       message |-> "You're doing great! Consider skipping some basic topics."]
        slow_down == [type |-> "slow_down",
                      message |-> "Let's reinforce fundamentals before moving forward."]
        review == [topic |-> "Review Session: Fundamentals",
                   reason |-> "Strengthen core concepts"]
    IN  IF IsError(avg_performance) THEN avg_performance
        ELSE [difficulty_changes |-> <<>>,
              topic_additions |->
                  IF ~(frac_gt(avg_performance, 90) \/ avg_performance.num = 90 * avg_performance.den)
                     /\ frac_lt(avg_performance, 60)
                  THEN <<review>> ELSE <<>>,
              topic_removals |-> <<>>,
              pace_adjustments |->
                  IF frac_gt(avg_performance, 90) \/ avg_performance.num = 90 * avg_performance.den
                  THEN <<accelerate>>
                  ELSE IF frac_lt(avg_performance, 60) THEN <<slow_down>>
                  ELSE <<>>]

\* scores are in hundredths; current_path is not read
adapt_curriculum(user_performance, current_path) ==
    LET scores == [i \in 1..Len(user_performance) |->
                      Get(user_performance[i], "score", 0)]
        avg_performance ==
            IF Len(user_performance) # 0
            THEN true_div(sum(scores), Len(user_performance))
            ELSE Number(0)
        accelerate == [type |-> "accelerate",
                       message |-> "You're doing great! Consider skipping some basic topics."]
        slow_down == [type |-> "slow_down",
                      message |-> "Let's reinforce fundamentals before moving forward."]
        review == [topic |-> "Review Session: Fundamentals",
                   reason |-> "Strengthen core concepts"]
    IN  IF IsError(avg_performance) THEN avg_performance
        ELSE [difficulty_changes |-> <<>>,
              topic_additions |->
                  IF ~frac_gt(avg_performance, 90) /\ frac_lt(avg_performance, 60)
                  THEN <<review>> ELSE <<>>,
              topic_removals |-> <<>>,
              pace_adjustments |->
                  IF frac_gt(avg_performance, 90) THEN <<accelerate>>
                  ELSE IF frac_lt(avg_performance, 60) THEN <<slow_down>>
                  ELSE <<>>]

\* the velocity is not compared with 0 before the division
predict_completion_date_unguarded(current_progress, total_topics, learning_velocity) ==
    LET remaining_topics == total_topics - current_progress
        days_remaining == true_div(remaining_topics * 100, learning_velocity)
    IN  IF IsError(days_remaining) THEN days_remaining
        ELSE [estimated_date |-> "now + " \o ToString(days_remaining.num) \o "/"
                                 \o ToString(days_remaining.den) \o " days",
              days_remaining |-> int(days_remaining),
              weeks_remaining |-> int_div(days_remaining.num, days_remaining.den * 7),
              confidence |-> IF frac_lt(days_remaining, 100) THEN "high" ELSE "medium",
              message |-> "At your current pace, you'll complete in "
                          \o ToString(int_div(days_remaining.num, days_remaining.den * 7))
                          \o " weeks"]

\* exactly 100 days still count as high confidence
predict_completion_date_upto100(current_progress, total_topics, learning_velocity) ==
    LET remaining_topics == total_topics - current_progress
        days_remaining == true_div(remaining_topics * 100, learning_velocity)
    IN  IF learning_velocity = 0
        THEN [estimated_date |-> "Cannot estimate",
              confidence |-> "low",
              message |-> "Complete more topics to get accurate prediction"]
        ELSE IF IsError(days_remaining) THEN days_remaining
        ELSE [estimated_date |-> "now + " \o ToString(days_remaining.num) \o "/"
                                 \o ToString(days_remaining.den) \o " days",
              days_remaining |-> int(days_remaining),
              weeks_remaining |-> int_div(days_remaining.num, days_remaining.den * 7),
              confidence |-> IF ~frac_gt(days_remaining, 100) THEN "high" ELSE "medium",
              message |-> "At your current pace, you'll complete in "
                          \o ToString(int_div(days_remaining.num, days_remaining.den * 7))
                          \o " weeks"]

\* learning_velocity is in hundredths of a topic per day
predict_completion_date(current_progress, total_topics, learning_velocity) ==
    LET remaining_topics == total_topics - current_progress
        days_remaining == true_div(remaining_topics * 100, learning_velocity)
    IN  IF learning_velocity = 0
        THEN [estimated_date |-> "Cannot estimate",
              confidence |-> "low",
              message |-> "Complete more topics to get accurate prediction"]
        ELSE IF IsError(days_remaining) THEN days_remaining
        ELSE [estimated_date |-> "now + " \o ToString(days_remaining.num) \o "/"
                                 \o ToString(days_remaining.den) \o " days",
              days_remaining |-> int(days_remaining),
              weeks_remaining |-> int_div(days_remaining.num, days_remaining.den * 7),
              confidence |-> IF frac_lt(days_remaining, 100) THEN "high" ELSE "medium",
              message |-> "At your current pace, you'll complete in "
                          \o ToString(int_div(days_remaining.num, days_remaining.den * 7))
                          \o " weeks"]

----------------------------------------------------------------------------
(* utils.py *)

\* the characters of an ISO date, in code-point order
DateChars == "-0123456789"

\* a < b for strings of date characters, as Python compares strings
RECURSIVE date_str_lt(_, _)
date_str_lt(a, b) ==
    LET ord(c) == CHOOSE i \in 1..Len(DateChars) : CharAt(DateChars, i) = c
    IN  IF Len(b) = 0 THEN FALSE
        ELSE IF Len(a) = 0 THEN TRUE
        ELSE IF CharAt(a, 1) = CharAt(b, 1)
        THEN date_str_lt(SubSeq(a, 2, Len(a)), SubSeq(b, 2, Len(b)))
        ELSE ord(CharAt(a, 1)) < ord(CharAt(b, 1))

\* int(s) for a string of decimal digits
RECURSIVE parse_int(_)
parse_int(s) ==
    LET digit(c) == (CHOOSE i \in 2..Len(DateChars) : CharAt(DateChars, i) = c) - 2
    IN  IF Len(s) = 0 THEN 0
        ELSE parse_int(SubSeq(s, 1, Len(s) - 1)) * 10 + digit(CharAt(s, Len(s)))

is_leap(year) == year % 4 = 0 /\ (year % 100 # 0 \/ year % 400 = 0)

days_in_month(year, month) ==
    IF month = 2 THEN (IF is_leap(year) THEN 29 ELSE 28)
    ELSE IF month \in {4, 6, 9, 11} THEN 30 ELSE 31

\* date(year, month, day).toordinal(): days since 0001-01-01, that day being 1
toordinal(year, month, day) ==
    LET y == year - 1
    IN  y * 365 + y \div 4 - y \div 100 + y \div 400
        + sum([m \in 1..(month - 1) |-> days_in_month(year, m)])
        + day

\* datetime.fromisoformat(s).date() for s = 'YYYY-MM-DD', as its ordinal
fromisoformat_date(s) ==
    toordinal(parse_int(SubSeq(s, 1, 4)), parse_int(SubSeq(s, 6, 7)),
              parse_int(SubSeq(s, 9, 10)))

\* sorted(activity_logs, key=lambda x: x['date'], reverse=True): stable,
\* largest key first
RECURSIVE sorted_by_date_reverse(_)
sorted_by_date_reverse(xs) ==
    IF Len(xs) = 0 THEN <<>>
    ELSE LET x == xs[Len(xs)]
             front == sorted_by_date_reverse(SubSeq(xs, 1, Len(xs) - 1))
             \* x goes behind every element whose key is not smaller than its own
             k == Cardinality({i \in 1..Len(front) : ~date_str_lt(front[i].date, x.date)})
         IN  SubSeq(front, 1, k) \o <<x>> \o SubSeq(front, k + 1, Len(front))

\* the logs are read in the order given
calculate_streak_unsorted(activity_logs, now) ==
    LET sorted_logs == activity_logs
        current_date == fromisoformat_date(now)
        n == Len(sorted_logs)
        loop[i \in 0..n] ==
            IF i = 0 THEN [streak |-> 0, broken |-> FALSE]
            ELSE LET before == loop[i - 1]
                     log_date == fromisoformat_date(sorted_logs[i].date)
                     expected_date == current_date - before.streak
                 IN  IF before.broken THEN before
                     ELSE IF log_date = expected_date
                     THEN [before EXCEPT !.streak = @ + 1]
                     ELSE IF log_date < expected_date
                     THEN [before EXCEPT !.broken = TRUE]
                     ELSE before
    IN  IF n = 0 THEN 0 ELSE loop[n].streak

\* now is the ISO date of datetime.now(); every log['date'] is an ISO date
\* string, as progress_streak of app.py passes it
calculate_streak(activity_logs, now) ==
    LET sorted_logs == sorted_by_date_reverse(activity_logs)
        current_date == fromisoformat_date(now)
        n == Len(sorted_logs)
        loop[i \in 0..n] ==
            IF i = 0 THEN [streak |-> 0, broken |-> FALSE]
            ELSE LET before == loop[i - 1]
                     log_date == fromisoformat_date(sorted_logs[i].date)
                     expected_date == current_date - before.streak
                 IN  IF before.broken THEN before
                     ELSE IF log_date = expected_date
                     THEN [before EXCEPT !.streak = @ + 1]
                     ELSE IF log_date < expected_date
                     THEN [before EXCEPT !.broken = TRUE]
                     ELSE before
    IN  IF n = 0 THEN 0 ELSE loop[n].streak

----------------------------------------------------------------------------
(* Inputs *)

Proficiencies == {"beginner", "intermediate", "advanced"}

\* target roles: the roles the front end offers, taxonomy keys, and roles
\* that meet more than one routing rule or none
Roles ==
    {"Full Stack Developer", "fullstack", "FULLSTACK", "Fullstack Developer",
     "Frontend Developer", "Fullstack Frontend Developer", "Backend Developer",
     "Backend Data Engineer", "Data Scientist", "data science", "Data ML Engineer",
     "Mobile App Developer", "Mobile AI Developer", "HTML Mobile Developer",
     "Machine Learning Engineer", "HTML Developer", "ML DevOps Engineer",
     "AI Engineer", "Email Marketer", "Maintenance DevOps", "AI DevOps Engineer",
     "DevOps Engineer", "devops", "Game Developer", ""}

SkillPool ==
    <<"Introduction to Programming", "HTML5 Fundamentals", "CSS3 Styling",
      "SQL Fundamentals", "Python Basics", "Custom Hooks", "Design Patterns",
      "Semantic HTML5", "Control Structures", "Functions and Scope",
      "HTML", "Git", "CSS">>

\* the first n skills of the pool
SkillsOfLen(k) == SubSeq(SkillPool, 1, k)

\* current-skill lists: none, exact topic titles (5 and 10 of them), titles in
\* another letter case, and skills no topic names
SkillLists ==
    {<<>>,
     SkillsOfLen(5),
     SkillsOfLen(10),
     <<"python basics", "control structures", "HTML5 FUNDAMENTALS", "custom hooks">>,
     <<"HTML", "css", "Git">>}

\* the skill lists handed to analyze_skill_gaps on its own: those above, as
\* many skills as the longest tier list requires and more skills than any
\* role requires
GapSkillLists == SkillLists \cup {SkillsOfLen(MaxSkillCount), SkillPool}

ContentPreferences ==
    {<<>>, <<"videos">>, <<"Articles", "interactive">>,
     <<"videos", "articles", "Interactive Coding">>}

\* the content types a preference list may hold: the spellings the code
\* looks for and spellings it does not
PreferencePool ==
    {"videos", "Videos", "VIDEOS", "articles", "Articles", "interactive",
     "Interactive", "Interactive Coding", "documentation"}

RECURSIVE ListsUpTo(_, _)
\* the lists of at most n elements of the set S
ListsUpTo(S, n) ==
    IF n = 0 THEN {<<>>}
    ELSE LET shorter == ListsUpTo(S, n - 1)
         IN  shorter \cup {Append(xs, x) : xs \in shorter, x \in S}

PreferenceLists == ListsUpTo(PreferencePool, MaxPreferences)

TopicNames == {"Git Basics", "REST API Design"}

\* performance records: scores in hundredths, and a record without a score
PerformanceRecords ==
    {[score |-> s] : s \in {0, 30, 60, 80, 90, 95, 100}} \cup {[topic_id |-> "topic_1_1"]}

PerformanceLists == ListsUpTo(PerformanceRecords, MaxPerformance)

\* runs of consecutive calendar days, across a leap day and across a new year
Calendars ==
    {<<"2024-02-27", "2024-02-28", "2024-02-29", "2024-03-01", "2024-03-02">>,
     <<"2023-12-29", "2023-12-30", "2023-12-31", "2024-01-01", "2024-01-02">>}

\* in every calendar of these runs today is the fourth day, so that the logs
\* may lie up to three days back and one day ahead
TodayIndex == 4

\* the activity logs with dates of the calendar
ActivityLogs(calendar) ==
    ListsUpTo({[date |-> calendar[i]] : i \in 1..Len(calendar)}, MaxLogs)

\* the estimated hours of upcoming topics, in tenths; -1 stands for a topic
\* that has no estimated_hours
TopicHours == <<10, 20, 25, -1, 50, 0>>

\* n upcoming topics; the hours of topic k are entry a + b*k of TopicHours
UpcomingTopics(n, a, b) ==
    [k \in 1..n |->
        LET hours == TopicHours[1 + ((a + b * k) % Len(TopicHours))]
        IN  IF hours < 0
            THEN [id |-> "topic_" \o ToString(k)]
            ELSE [id |-> "topic_" \o ToString(k), estimated_hours |-> hours]]

UpcomingTopicLists ==
    {UpcomingTopics(n, a, b) :
        n \in 0..MaxScheduleTopics, a \in 0..(Len(TopicHours) - 1), b \in 0..2}

\* hours available per day, in tenths
AvailableHours == {-10, 0, 10, 20, 45}

\* the topics_completed of activity logs; -1 stands for a log without
\* topics_completed
TopicsCompleted == <<1, 2, 0, 3, -1, 5>>

\* n activity logs, oldest first; log k has entry a + b*k of TopicsCompleted
VelocityLogs(n, a, b) ==
    [k \in 1..n |->
        LET count == TopicsCompleted[1 + ((a + b * k) % Len(TopicsCompleted))]
        IN  IF count < 0
            THEN [learning_minutes |-> 30]
            ELSE [learning_minutes |-> 30, topics_completed |-> count]]

VelocityLogLists ==
    {VelocityLogs(n, a, b) :
        n \in 0..MaxVelocityLogs, a \in 0..(Len(TopicsCompleted) - 1), b \in 0..2}

\* a progress record; a time of -1 and the feedback "" stand for a key the
\* record does not have
ProgressRecord(topic_id, time_spent_minutes, expected_minutes, difficulty_feedback) ==
    LET keys == {"topic_id"}
                \cup (IF time_spent_minutes >= 0 THEN {"time_spent_minutes"} ELSE {})
                \cup (IF expected_minutes >= 0 THEN {"expected_minutes"} ELSE {})
                \cup (IF difficulty_feedback # "" THEN {"difficulty_feedback"} ELSE {})
    IN  [k \in keys |->
            CASE k = "topic_id" -> topic_id
              [] k = "time_spent_minutes" -> time_spent_minutes
              [] k = "expected_minutes" -> expected_minutes
              [] k = "difficulty_feedback" -> difficulty_feedback]

\* progress records of two topics: time spent below, at and above 1.5 times
\* the expected time, an expected time of 0, with and without feedback
ProgressRecords ==
    {ProgressRecord(topic_id, minutes[1], minutes[2], difficulty_feedback) :
        topic_id \in {"topic_1_1", "topic_1_2"},
        minutes \in {<<-1, -1>>, <<150, 100>>, <<200, 100>>, <<200, -1>>,
                     <<-1, 0>>, <<200, 0>>},
        difficulty_feedback \in {"", "too_hard", "too_easy"}}

ProgressLists == ListsUpTo(ProgressRecords, MaxProgress)

\* daily hours, in tenths of an hour
DailyHours == {-10, 0, 5, 20}

Scores == {0, 49, 50, 51, 79, 80, 81, 100}

\* velocities, in hundredths of a topic per day
Velocities == {-100, -14, 0, 1, 5, 14, 100, 200}

\* the outcomes of the random draws for a curriculum of n topics
Draws(n) ==
    IF n <= MaxFullDraw THEN [1..n -> 2..8]
    ELSE {[k \in 1..n |-> 2 + ((a + b * k) % 7)] : a \in 0..6, b \in 0..MaxStride}

HasPath == "modules" \in DOMAIN learning_path

\* the user_data dicts handed to generate_personalized_path on its own: one
\* role for every routing rule and one no rule matches
UserDatas ==
    [current_skills : SkillLists,
     target_role : {"Full Stack Developer", "Frontend Developer", "Backend Developer",
                    "Data Scientist", "Mobile App Developer",
                    "Machine Learning Engineer", "AI Engineer", "DevOps Engineer",
                    "Game Developer"},
     learning_pace : {"moderate"},
     daily_hours : {0, 20},
     assessment_score : {0, 60, 90},
     preferred_content : {<<"videos">>, <<"videos", "articles", "interactive">>}]

UserIds == {1, 2}

RequestIds == 1..MaxRequests

\* the target_role save_goal stores: none (None or '', written "") or a role
GoalRoles == {"", "Backend Developer"}

\* no request: the slot is free
IdleRequest ==
    [pc |-> "idle", handler |-> "", user_id |-> 0, target_role |-> "",
     existing_path |-> 0]

\* no user has set a goal, no path is stored, no request is in progress, no
\* topic is completed
InitDb ==
    /\ users = [user_id \in UserIds |-> [target_role |-> ""]]
    /\ learning_paths = <<>>
    /\ requests = [r \in RequestIds |-> IdleRequest]
    /\ progress_rows = <<>>

----------------------------------------------------------------------------
(* The engine functions, called one at a time; call.op = "none" is the idle *)
(* engine                                                                  *)

Init ==
    /\ learning_path = None
    /\ user_progress = {}
    /\ user_skills = <<>>
    /\ call = [op |-> "none"]
    /\ InitDb

AnalyzeSkillGaps ==
    /\ call.op = "none"
    /\ \E current_skills \in GapSkillLists,
          target_role \in Roles \cup DOMAIN load_skill_hierarchy :
        /\ call' = [op |-> "analyze_skill_gaps",
                    current_skills |-> current_skills,
                    target_role |-> target_role,
                    ret |-> analyze_skill_gaps(current_skills, target_role)]
        /\ UNCHANGED <<learning_path, user_progress, user_skills>>
    /\ UNCHANGED db_vars

DetermineProficiencyLevel ==
    /\ call.op \in {"none", "determine_proficiency_level"}
    /\ \E k \in 0..MaxSkillCount, assessment_score \in Scores :
        /\ call' = [op |-> "determine_proficiency_level",
                    current_skills |-> SkillsOfLen(k),
                    assessment_score |-> assessment_score,
                    ret |-> determine_proficiency_level(SkillsOfLen(k), assessment_score)]
        /\ UNCHANGED <<learning_path, user_progress, user_skills>>
    /\ UNCHANGED db_vars

PredictCompletionDate ==
    /\ call.op = "none"
    /\ \E total_topics \in 0..MaxTopics, current_progress \in 0..MaxTopics,
       learning_velocity \in Velocities :
        /\ call' = [op |-> "predict_completion_date",
                    current_progress |-> current_progress,
                    total_topics |-> total_topics,
                    learning_velocity |-> learning_velocity,
                    ret |-> predict_completion_date(current_progress, total_topics,
                                                    learning_velocity)]
        /\ UNCHANGED <<learning_path, user_progress, user_skills>>
    /\ UNCHANGED db_vars

FetchResourcesForTopic ==
    /\ call.op = "none"
    /\ \E topic_name \in TopicNames, preferred_content \in PreferenceLists :
        /\ call' = [op |-> "fetch_resources_for_topic",
                    topic_name |-> topic_name,
                    preferred_content |-> preferred_content,
                    ret |-> fetch_resources_for_topic(topic_name, preferred_content)]
        /\ UNCHANGED <<learning_path, user_progress, user_skills>>
    /\ UNCHANGED db_vars

AdaptCurriculum ==
    /\ call.op = "none"
    /\ \E user_performance \in PerformanceLists :
        /\ call' = [op |-> "adapt_curriculum",
                    user_performance |-> user_performance,
                    ret |-> adapt_curriculum(user_performance, None)]
        /\ UNCHANGED <<learning_path, user_progress, user_skills>>
    /\ UNCHANGED db_vars

CalculateStreak ==
    /\ call.op = "none"
    /\ \E calendar \in Calendars :
       \E activity_logs \in ActivityLogs(calendar) :
        /\ call' = [op |-> "calculate_streak",
                    activity_logs |-> activity_logs,
                    calendar |-> calendar,
                    ret |-> calculate_streak(activity_logs, calendar[TodayIndex])]
        /\ UNCHANGED <<learning_path, user_progress, user_skills>>
    /\ UNCHANGED db_vars

SuggestStudySchedule ==
    /\ call.op = "none"
    /\ \E available_hours \in AvailableHours, upcoming_topics \in UpcomingTopicLists :
        /\ call' = [op |-> "suggest_study_schedule",
                    available_hours |-> available_hours,
                    upcoming_topics |-> upcoming_topics,
                    ret |-> suggest_study_schedule(available_hours, "moderate",
                                                   upcoming_topics)]
        /\ UNCHANGED <<learning_path, user_progress, user_skills>>
    /\ UNCHANGED db_vars

AnalyzeLearningVelocity ==
    /\ call.op = "none"
    /\ \E activity_logs \in VelocityLogLists :
        /\ call' = [op |-> "analyze_learning_velocity",
                    activity_logs |-> activity_logs,
                    ret |-> analyze_learning_velocity(activity_logs)]
        /\ UNCHANGED <<learning_path, user_progress, user_skills>>
    /\ UNCHANGED db_vars

DetectStrugglingTopics ==
    /\ call.op = "none"
    /\ \E progress_data \in ProgressLists :
        /\ call' = [op |-> "detect_struggling_topics",
                    progress_data |-> progress_data,
                    ret |-> detect_struggling_topics(progress_data)]
        /\ UNCHANGED <<learning_path, user_progress, user_skills>>
    /\ UNCHANGED db_vars

----------------------------------------------------------------------------
(* The steps of generate_personalized_path, applied to learning_path *)

BuildCurriculum ==
    /\ call.op = "none"
    /\ \E target_role \in Roles, proficiency \in Proficiencies :
        /\ learning_path' = build_curriculum(target_role, None, proficiency, "moderate")
        /\ call' = [op |-> "build_curriculum",
                    target_role |-> target_role,
                    proficiency |-> proficiency]
    /\ UNCHANGED <<user_progress, user_skills>>
    /\ UNCHANGED db_vars

OptimizeLearningSequence ==
    /\ call.op \in {"build_curriculum", "optimize_learning_sequence"}
    /\ \E current_skills \in SkillLists :
        /\ learning_path' = optimize_learning_sequence(learning_path, current_skills)
        /\ call' = [op |-> "optimize_learning_sequence",
                    curriculum |-> learning_path,
                    current_skills |-> current_skills]
    /\ UNCHANGED <<user_progress, user_skills>>
    /\ UNCHANGED db_vars

AddPersonalizedResources ==
    /\ call.op = "optimize_learning_sequence"
    /\ \E preferred_content \in ContentPreferences :
        /\ learning_path' = add_personalized_resources(learning_path, preferred_content)
        /\ call' = [op |-> "add_personalized_resources",
                    preferred_content |-> preferred_content]
    /\ UNCHANGED <<user_progress, user_skills>>
    /\ UNCHANGED db_vars

CalculateTimeEstimates ==
    /\ call.op = "add_personalized_resources"
    /\ \E daily_hours \in DailyHours, proficiency \in Proficiencies \cup {"expert"},
          draws \in Draws(TopicCount(learning_path)) :
        /\ learning_path' = calculate_time_estimates(learning_path, daily_hours,
                                                     proficiency, draws)
        /\ call' = [op |-> "calculate_time_estimates",
                    daily_hours |-> daily_hours,
                    proficiency |-> proficiency,
                    draws |-> draws]
    /\ UNCHANGED <<user_progress, user_skills>>
    /\ UNCHANGED db_vars

\* the random draws of generate_personalized_path called on its own
GenerateDraws(n) == {[k \in 1..n |-> 2 + ((a + k) % 7)] : a \in {0, 3}}

GeneratePersonalizedPath ==
    /\ call.op = "none"
    /\ \E user_data \in UserDatas :
        LET proficiency == determine_proficiency_level(user_data.current_skills,
                                                       user_data.assessment_score)
            curriculum == build_curriculum(user_data.target_role, None, proficiency,
                                           user_data.learning_pace)
        IN  \E draws \in GenerateDraws(TopicCount(curriculum)) :
                /\ learning_path' = generate_personalized_path(user_data, draws)
                /\ call' = [op |-> "generate_personalized_path",
                            user_data |-> user_data,
                            draws |-> draws]
    /\ UNCHANGED <<user_progress, user_skills>>
    /\ UNCHANGED db_vars

\* the call returns and the engine is idle again
Return ==
    /\ call.op \in {"analyze_skill_gaps", "determine_proficiency_level",
                    "predict_completion_date", "calculate_time_estimates",
                    "fetch_resources_for_topic", "generate_personalized_path",
                    "adapt_curriculum", "calculate_streak",
                    "suggest_study_schedule", "analyze_learning_velocity",
                    "detect_struggling_topics"}
    /\ learning_path' = None
    /\ call' = [op |-> "none"]
    /\ UNCHANGED <<user_progress, user_skills>>
    /\ UNCHANGED db_vars

Next ==
    \/ AnalyzeSkillGaps
    \/ DetermineProficiencyLevel
    \/ PredictCompletionDate
    \/ FetchResourcesForTopic
    \/ AdaptCurriculum
    \/ CalculateStreak
    \/ SuggestStudySchedule
    \/ AnalyzeLearningVelocity
    \/ DetectStrugglingTopics
    \/ BuildCurriculum
    \/ OptimizeLearningSequence
    \/ AddPersonalizedResources
    \/ CalculateTimeEstimates
    \/ GeneratePersonalizedPath
    \/ Return

Spec == Init /\ [][Next]_vars

----------------------------------------------------------------------------
(* The recommender on generated paths *)

\* the roles a user of these runs sets as target_role
PathRoles == {"Full Stack Developer", "Backend Developer", "Frontend Developer"}

PathScores == {0, 60}

\* the random draws of these runs
PathDraws(n) == {[k \in 1..n |-> 2 + ((a + k) % 7)] : a \in {0, 3}}

\* user_data as generate_path of app.py fills it in
UserData(current_skills, target_role, assessment_score) ==
    [current_skills |-> current_skills,
     target_role |-> target_role,
     learning_pace |-> "moderate",
     daily_hours |-> 20,
     assessment_score |-> assessment_score,
     preferred_content |-> <<"videos", "articles", "interactive">>]

\* the curricula generate_path stores for these users
GeneratedPaths ==
    UNION {
        LET proficiency == determine_proficiency_level(current_skills, assessment_score)
            topic_count == TopicCount(build_curriculum(target_role, None,
                                                       proficiency, "moderate"))
        IN  {generate_personalized_path(
                 UserData(current_skills, target_role, assessment_score), draws) :
             draws \in PathDraws(topic_count)} :
        current_skills \in SkillLists, target_role \in PathRoles,
        assessment_score \in PathScores}

\* the ids a complete-topic request may name: the first CompletedWindow topics
\* in scan order and an id no curriculum has
CompletableIds(path) ==
    {Scan(path, 1)[k].topic.id :
        k \in 1..Min(CompletedWindow, Len(Scan(path, 1)))} \cup {"topic_0_0"}

\* a stored path, the current skills (saved before or after the path was
\* generated) and the completed topics of that path
InitRec ==
    /\ learning_path \in GeneratedPaths
    /\ user_skills \in SkillLists
    /\ user_progress \in SUBSET CompletableIds(learning_path)
    /\ call = [op |-> "none"]
    /\ InitDb

\* POST /api/progress/complete-topic, for the active path
CompleteTopic ==
    /\ \E topic_id \in CompletableIds(learning_path) :
        /\ topic_id \notin user_progress
        /\ user_progress' = user_progress \cup {topic_id}
    /\ call' = [op |-> "none"]
    /\ UNCHANGED <<learning_path, user_skills>>
    /\ UNCHANGED db_vars

\* POST /api/ai/recommend
AiRecommend ==
    /\ call' = [op |-> "recommend_next_topics",
                ret |-> recommend_next_topics(user_progress, user_skills,
                                              learning_path)]
    /\ UNCHANGED <<learning_path, user_progress, user_skills>>
    /\ UNCHANGED db_vars

NextRec ==
    \/ CompleteTopic
    \/ AiRecommend

SpecRec == InitRec /\ [][NextRec]_vars

----------------------------------------------------------------------------
(* A learner with no skills who follows the recommendations: the path is   *)
(* generated once, then the learner asks for recommendations and completes *)
(* one of the recommended topics, again and again.                         *)

\* one target role for each curriculum track
LearnerRoles ==
    {"Full Stack Developer", "Backend Developer", "Frontend Developer",
     "Data Scientist", "Mobile App Developer", "DevOps Engineer"}

\* the curricula generate_path stores for a user without skills
LearnerPaths ==
    UNION {
        LET topic_count == TopicCount(build_curriculum(target_role, None,
                                                       "beginner", "moderate"))
        IN  {generate_personalized_path(
                 UserData(<<>>, target_role, assessment_score), draws) :
             draws \in PathDraws(topic_count)} :
        target_role \in LearnerRoles, assessment_score \in PathScores}

InitLearner ==
    /\ learning_path \in LearnerPaths
    /\ user_skills = <<>>
    /\ user_progress = {}
    /\ call = [op |-> "none"]
    /\ InitDb

\* POST /api/progress/complete-topic for one of the topics the last
\* recommendation listed
CompleteRecommendedTopic ==
    /\ call.op = "recommend_next_topics"
    /\ \E i \in 1..Len(call.ret) :
        user_progress' = user_progress \cup {call.ret[i].topic_id}
    /\ call' = [op |-> "none"]
    /\ UNCHANGED <<learning_path, user_skills>>
    /\ UNCHANGED db_vars

NextLearner ==
    \/ AiRecommend
    \/ CompleteRecommendedTopic

\* the learner keeps asking and keeps completing while there is something to
\* complete
SpecLearner ==
    /\ InitLearner
    /\ [][NextLearner]_vars
    /\ WF_vars(AiRecommend)
    /\ WF_vars(CompleteRecommendedTopic)

----------------------------------------------------------------------------
(* The path handlers of app.py: generate_path and regenerate_path, step by *)
(* step between their database commits.  A row of learning_paths has the   *)
(* columns the handlers read or that identify a path; the columns that     *)
(* depend on the random draws (curriculum_data, estimated_duration_weeks)  *)
(* are left out.  created_at grows with the row id.                        *)

\* user.target_role or 'Full Stack Developer'
target_role_of(user) ==
    IF user.target_role = "" THEN "Full Stack Developer" ELSE user.target_role

\* the columns of the path generate_path builds for a target role, for a
\* user with no skills, score and preferences saved
PathColumns ==
    [target_role \in {target_role_of([target_role |-> role]) : role \in GoalRoles} |->
        LET user_data == UserData(<<>>, target_role, 0)
            topic_count == TopicCount(build_curriculum(target_role, None,
                                                       "beginner", "moderate"))
            curriculum == generate_personalized_path(
                              user_data, [k \in 1..topic_count |-> 2])
        IN  [title |-> Get(curriculum, "title", "Learning Path")
                       \o " (" \o target_role \o ")",
             target_role |-> target_role,
             difficulty_level |-> curriculum.difficulty,
             total_modules |-> Len(curriculum.modules),
             total_topics |-> TopicCount(curriculum)]]

\* LearningPath.query.filter_by(user_id=, target_role=, is_active=True)
\*     .order_by(LearningPath.created_at.desc()).first(): the row id, 0 for None
existing_path_of(paths, user_id, target_role) ==
    LET found == {i \in 1..Len(paths) :
                     /\ paths[i].user_id = user_id
                     /\ paths[i].target_role = target_role
                     /\ paths[i].is_active}
    IN  IF found = {} THEN 0 ELSE CHOOSE i \in found : \A j \in found : j <= i

\* the change of is_active is not written to the table
deactivate_not_saved(paths, id) == paths

\* every active path of the user and role of the row is deactivated
deactivate_every_active(paths, id) ==
    [i \in 1..Len(paths) |->
        IF paths[i].user_id = paths[id].user_id
           /\ paths[i].target_role = paths[id].target_role
        THEN [paths[i] EXCEPT !.is_active = FALSE]
        ELSE paths[i]]

\* existing_path.is_active = False; db.session.commit()
deactivate(paths, id) == [paths EXCEPT ![id].is_active = FALSE]

\* LearningPath.query.filter_by(user_id=, is_active=True).update({'is_active': False})
deactivate_all(paths, user_id) ==
    [i \in 1..Len(paths) |->
        IF paths[i].user_id = user_id
        THEN [paths[i] EXCEPT !.is_active = FALSE]
        ELSE paths[i]]

\* db.session.add(LearningPath(...)); db.session.commit(): is_active defaults
\* to True, completed_topics to 0 and completion_percentage to 0.0
add_learning_path(paths, user_id, target_role) ==
    Append(paths,
           [id |-> Len(paths) + 1, user_id |-> user_id, is_active |-> TRUE,
            completed_topics |-> 0, completion_percentage |-> 0]
           @@ PathColumns[target_role])

\* the requests that are past their start
InProgress == {r \in RequestIds : requests[r].pc # "idle"}

\* the first lines of generate_path: the user's target role is read and the
\* active path of that role is looked up
Lookup(r, handler, user_id) ==
    LET target_role == target_role_of(users[user_id])
        existing_path == existing_path_of(learning_paths, user_id, target_role)
    IN  requests' = [requests EXCEPT ![r] =
                        [pc |-> IF existing_path # 0 THEN "deactivate" ELSE "insert",
                         handler |-> handler,
                         user_id |-> user_id,
                         target_role |-> target_role,
                         existing_path |-> existing_path]]

\* POST /api/onboarding/goal
SaveGoal ==
    /\ \E user_id \in UserIds, target_role \in GoalRoles :
        /\ users[user_id].target_role # target_role
        /\ users' = [users EXCEPT ![user_id].target_role = target_role]
    /\ UNCHANGED <<learning_path, user_progress, user_skills, call,
                   learning_paths, requests, progress_rows>>

\* POST /api/ai/generate-path arrives and runs up to its lookup
GeneratePath(r) ==
    /\ requests[r].pc = "idle"
    /\ Len(learning_paths) + Cardinality(InProgress) < MaxPaths
    /\ \E user_id \in UserIds : Lookup(r, "generate_path", user_id)
    /\ UNCHANGED <<learning_path, user_progress, user_skills, call,
                   users, learning_paths, progress_rows>>

\* generate_path: if existing_path: existing_path.is_active = False; commit
GeneratePathDeactivate(r) ==
    /\ requests[r].pc = "deactivate"
    /\ learning_paths' = deactivate(learning_paths, requests[r].existing_path)
    /\ requests' = [requests EXCEPT ![r].pc = "insert"]
    /\ UNCHANGED <<learning_path, user_progress, user_skills, call, users,
                   progress_rows>>

\* generate_path: the curriculum is generated, the new path is added and
\* committed, the request ends
GeneratePathInsert(r) ==
    /\ requests[r].pc = "insert"
    /\ learning_paths' = add_learning_path(learning_paths, requests[r].user_id,
                                           requests[r].target_role)
    /\ requests' = [requests EXCEPT ![r] = IdleRequest]
    /\ UNCHANGED <<learning_path, user_progress, user_skills, call, users,
                   progress_rows>>

\* PUT /api/ai/regenerate-path arrives: every active path of the user is
\* deactivated and committed
RegeneratePath(r) ==
    /\ requests[r].pc = "idle"
    /\ Len(learning_paths) + Cardinality(InProgress) < MaxPaths
    /\ \E user_id \in UserIds :
        /\ learning_paths' = deactivate_all(learning_paths, user_id)
        /\ requests' = [requests EXCEPT ![r] =
                            [IdleRequest EXCEPT !.pc = "generate",
                                                !.handler = "regenerate_path",
                                                !.user_id = user_id]]
    /\ UNCHANGED <<learning_path, user_progress, user_skills, call, users,
                   progress_rows>>

\* regenerate_path: return generate_path(), up to its lookup
RegeneratePathGenerate(r) ==
    /\ requests[r].pc = "generate"
    /\ Lookup(r, "regenerate_path", requests[r].user_id)
    /\ UNCHANGED <<learning_path, user_progress, user_skills, call,
                   users, learning_paths, progress_rows>>

\* the steps of the request in slot r
Request(r) ==
    \/ GeneratePath(r)
    \/ GeneratePathDeactivate(r)
    \/ GeneratePathInsert(r)
    \/ RegeneratePath(r)
    \/ RegeneratePathGenerate(r)

\* the requests run one at a time: a request starts when the one before it
\* has ended
NextSerial ==
    \/ SaveGoal
    \/ Request(1)

SpecSerial == Init /\ [][NextSerial]_vars

\* the requests of the threaded server interleave between their commits
NextConcurrent ==
    \/ SaveGoal
    \/ \E r \in RequestIds : Request(r)

SpecConcurrent == Init /\ [][NextConcurrent]_vars

----------------------------------------------------------------------------
(* complete_topic of app.py on the Progress table.  The handler commits    *)
(* once, at its end, so a request is one step.  A Progress row has the     *)
(* columns that identify it and its status; the handler's updates of the   *)
(* user's XP and of the activity log do not touch the Progress table or    *)
(* the path's counters and are left out.                                   *)

\* the module_id and topic_id a request may carry; "" is a field that is
\* missing.  The handler does not compare them with the curriculum.
RequestModuleIds == {"", "module_1"}

RequestTopicIds == {"topic_1_1", "topic_1_2"}

\* the paths two users have generated, one after the other
StoredPaths ==
    LET target_role == target_role_of([target_role |-> ""])
    IN  add_learning_path(add_learning_path(<<>>, 1, target_role), 2, target_role)

\* the lookup finds no row
find_progress_none(rows, user_id, learning_path_id, module_id, topic_id) == 0

\* Progress.query.filter_by(user_id=, learning_path_id=, module_id=,
\*     topic_id=).first(): the row id, 0 for None
find_progress(rows, user_id, learning_path_id, module_id, topic_id) ==
    LET found == {i \in 1..Len(rows) :
                     /\ rows[i].user_id = user_id
                     /\ rows[i].learning_path_id = learning_path_id
                     /\ rows[i].module_id = module_id
                     /\ rows[i].topic_id = topic_id}
    IN  IF found = {} THEN 0 ELSE CHOOSE i \in found : \A j \in found : i <= j

\* Progress.query.filter_by(user_id=, learning_path_id=, status='completed').count()
completed_count(rows, user_id, learning_path_id) ==
    Cardinality({i \in 1..Len(rows) :
                    /\ rows[i].user_id = user_id
                    /\ rows[i].learning_path_id = learning_path_id
                    /\ rows[i].status = "completed"})

\* the response status and the tables after the commit; a learning_path_id
\* of 0 is a missing field.  completion_percentage is in tenths of a percent.
complete_topic(paths, rows, user_id, learning_path_id, module_id, topic_id) ==
    LET progress == find_progress(rows, user_id, learning_path_id, module_id, topic_id)
        \* the session after db.session.add(progress); the count query flushes it
        added ==
            IF progress = 0
            THEN Append(rows, [id |-> Len(rows) + 1,
                               user_id |-> user_id,
                               learning_path_id |-> learning_path_id,
                               module_id |-> module_id,
                               topic_id |-> topic_id,
                               status |-> "completed"])
            ELSE [rows EXCEPT ![progress].status = "completed"]
        completed_topics == completed_count(added, user_id, learning_path_id)
        path == paths[learning_path_id]
        completion_percentage ==
            IF path.total_topics > 0
            THEN round_to(times(true_div(completed_topics, path.total_topics), 100), 10)
            ELSE path.completion_percentage
    IN  IF learning_path_id = 0 \/ module_id = "" \/ topic_id = ""
        THEN [status |-> 400, found |-> FALSE,
              learning_paths |-> paths, progress_rows |-> rows]
        \* LearningPath.query.get returns None and path.completed_topics raises:
        \* nothing is committed
        ELSE IF learning_path_id \notin 1..Len(paths)
        THEN [status |-> 500, found |-> progress # 0,
              learning_paths |-> paths, progress_rows |-> rows]
        ELSE [status |-> 200, found |-> progress # 0,
              learning_paths |->
                  [paths EXCEPT ![learning_path_id] =
                      [path EXCEPT !.completed_topics = completed_topics,
                                   !.completion_percentage = completion_percentage]],
              progress_rows |-> added]

\* two users have a path each and no topic is completed
InitComplete ==
    /\ learning_path = None
    /\ user_progress = {}
    /\ user_skills = <<>>
    /\ call = [op |-> "none"]
    /\ users = [user_id \in UserIds |-> [target_role |-> ""]]
    /\ learning_paths = StoredPaths
    /\ requests = [r \in RequestIds |-> IdleRequest]
    /\ progress_rows = <<>>

\* POST /api/progress/complete-topic, from its first line to its response
CompleteTopicRequest ==
    /\ \E user_id \in UserIds, learning_path_id \in 0..(Len(learning_paths) + 1),
          module_id \in RequestModuleIds, topic_id \in RequestTopicIds :
        LET response == complete_topic(learning_paths, progress_rows, user_id,
                                       learning_path_id, module_id, topic_id)
        IN  /\ Len(response.progress_rows) <= MaxProgressRows
            /\ learning_paths' = response.learning_paths
            /\ progress_rows' = response.progress_rows
            /\ call' = [op |-> "complete_topic",
                        user_id |-> user_id,
                        learning_path_id |-> learning_path_id,
                        module_id |-> module_id,
                        topic_id |-> topic_id,
                        found |-> response.found,
                        status |-> response.status]
    /\ UNCHANGED <<learning_path, user_progress, user_skills, users, requests>>

\* the complete-topic requests run one at a time
NextComplete == CompleteTopicRequest

SpecComplete == InitComplete /\ [][NextComplete]_vars

----------------------------------------------------------------------------
(* Properties of recommend_next_topics, checked under SpecRec *)

IsRecommendCall == call.op = "recommend_next_topics"

\* the topics of a curriculum in scan order: modules in list order, topics in
\* list order
TopicsOf(curriculum) ==
    LET scan == Scan(curriculum, 1)
    IN  [k \in 1..Len(scan) |-> scan[k].topic]

\* C1: recommend_next_topics returns at most 5 recommendations, and no
\* returned topic_id is among the completed ids.
C1_AtMostFiveNoneCompleted ==
    IsRecommendCall =>
        /\ Len(call.ret) <= 5
        /\ \A i \in 1..Len(call.ret) : call.ret[i].topic_id \notin user_progress

\* a call that returned 5 topics while a completed topic of the path with no
\* prerequisite (one the scan would otherwise pick) is left out
C1_Witness ==
    /\ IsRecommendCall
    /\ Len(call.ret) = 5
    /\ LET topics == TopicsOf(learning_path)
       IN  \E k \in 1..Len(topics) :
            /\ topics[k].id \in user_progress
            /\ topics[k].prerequisites = <<>>
            /\ ~topics[k].locked

\* the prerequisite p is in userSkills or is the title of a completed topic
C2_PrerequisiteMet(p, topics) ==
    \/ \E i \in 1..Len(user_skills) : user_skills[i] = p
    \/ \E k \in 1..Len(topics) :
        /\ topics[k].title = p
        /\ topics[k].id \in user_progress

C2_AllPrerequisitesMet(topic, topics) ==
    \A i \in 1..Len(topic.prerequisites) :
        C2_PrerequisiteMet(topic.prerequisites[i], topics)

\* the scan positions of the topics that pass every gate
C2_Eligible(topics) ==
    {k \in 1..Len(topics) :
        /\ topics[k].id \notin user_progress
        /\ topics[k].locked = FALSE
        /\ C2_AllPrerequisitesMet(topics[k], topics)}

\* C2: recommend_next_topics returns exactly the first 5, in scan order, of
\* the topics that are not completed, not locked, and whose prerequisites are
\* all in userSkills or titles of completed topics; an unlocked topic with an
\* unmet prerequisite is left out.
C2_FirstFiveEligible ==
    IsRecommendCall =>
        LET topics == TopicsOf(learning_path)
            eligible == C2_Eligible(topics)
        IN  /\ Len(call.ret) = Min(5, Cardinality(eligible))
            /\ \A i \in 1..Len(call.ret) :
                \E k \in eligible :
                    /\ call.ret[i].topic_id = topics[k].id
                    /\ call.ret[i].topic_title = topics[k].title
                    /\ Cardinality({q \in eligible : q < k}) = i - 1
            /\ \A k \in 1..Len(topics) :
                ~C2_AllPrerequisitesMet(topics[k], topics) =>
                    \A i \in 1..Len(call.ret) : call.ret[i].topic_id # topics[k].id

\* more than 5 topics pass every gate, one uncompleted topic is unlocked but
\* has an unmet prerequisite, and one is locked although its prerequisites
\* are met
C2_Witness ==
    /\ IsRecommendCall
    /\ LET topics == TopicsOf(learning_path)
       IN  /\ Cardinality(C2_Eligible(topics)) > 5
           /\ \E k \in 1..Len(topics) :
                /\ topics[k].id \notin user_progress
                /\ topics[k].locked = FALSE
                /\ ~C2_AllPrerequisitesMet(topics[k], topics)
           /\ \E k \in 1..Len(topics) :
                /\ topics[k].id \notin user_progress
                /\ topics[k].locked = TRUE
                /\ C2_AllPrerequisitesMet(topics[k], topics)

----------------------------------------------------------------------------
(* Properties of the generation steps and the analyzers, checked under Spec *)

IsOptimizeCall == call.op = "optimize_learning_sequence"

\* every prerequisite, lowercased, is in the lowercased skills
C3_AllPrerequisitesInSkills(topic, skills) ==
    \A i \in 1..Len(topic.prerequisites) :
        \E j \in 1..Len(skills) : lower(skills[j]) = lower(topic.prerequisites[i])

\* C3: optimize_learning_sequence sets, for every topic, locked = NOT (every
\* prerequisite, lowercased, is in the lowercased current skills), whatever
\* locked was before; a topic with no prerequisites is unlocked; applying it
\* again with the same skills changes nothing.
C3_LockedFromSkills ==
    IsOptimizeCall =>
        /\ LET topics == TopicsOf(learning_path)
           IN  \A k \in 1..Len(topics) :
                /\ topics[k].locked
                       = ~C3_AllPrerequisitesInSkills(topics[k], call.current_skills)
                /\ topics[k].prerequisites = <<>> => ~topics[k].locked
        /\ optimize_learning_sequence(learning_path, call.current_skills) = learning_path

\* the step ran on a curriculum that was locked with other skills: one topic
\* went from locked to unlocked (its prerequisite matched in another letter
\* case) and one from unlocked to locked
C3_Witness ==
    /\ IsOptimizeCall
    /\ LET before == TopicsOf(call.curriculum)
           after == TopicsOf(learning_path)
       IN  /\ \E k \in 1..Len(after) :
                /\ "locked" \in DOMAIN before[k]
                /\ before[k].locked
                /\ ~after[k].locked
                /\ ~InList(after[k].prerequisites[1], call.current_skills)
           /\ \E k \in 1..Len(after) :
                /\ "locked" \in DOMAIN before[k]
                /\ ~before[k].locked
                /\ after[k].locked

IsBuildCall == call.op = "build_curriculum"

\* the routing rules in the order they are tried
C4_Rules ==
    <<[kind |-> "equals", words |-> {"fullstack", "full_stack_developer"},
       track |-> "fullstack"],
      [kind |-> "contains", words |-> {"frontend"}, track |-> "frontend"],
      [kind |-> "contains", words |-> {"backend"}, track |-> "backend"],
      [kind |-> "contains", words |-> {"data"}, track |-> "datascience"],
      [kind |-> "contains", words |-> {"mobile"}, track |-> "mobile"],
      [kind |-> "contains", words |-> {"machine_learning", "ml"}, track |-> "ml"],
      [kind |-> "contains", words |-> {"ai"}, track |-> "ai"],
      [kind |-> "contains", words |-> {"devops"}, track |-> "devops"]>>

\* the normalised key: lowercase, spaces to underscores
C4_Key(target_role) == replace(lower(target_role), " ", "_")

C4_Matching(key) ==
    {i \in 1..Len(C4_Rules) :
        IF C4_Rules[i].kind = "equals" THEN key \in C4_Rules[i].words
        ELSE \E w \in C4_Rules[i].words : str_in(w, key)}

C4_Track(key) ==
    IF C4_Matching(key) = {} THEN "fullstack"
    ELSE C4_Rules[CHOOSE i \in C4_Matching(key) :
                     \A j \in C4_Matching(key) : i <= j].track

C4_Template(track, proficiency) ==
    CASE track = "fullstack" -> generate_fullstack_curriculum(proficiency)
      [] track = "frontend" -> generate_frontend_curriculum(proficiency)
      [] track = "backend" -> generate_backend_curriculum(proficiency)
      [] track = "datascience" -> generate_datascience_curriculum(proficiency)
      [] track = "mobile" -> generate_mobile_curriculum(proficiency)
      [] track = "devops" -> generate_devops_curriculum(proficiency)
      [] track = "ml" ->
            [generate_datascience_curriculum(proficiency) EXCEPT
                !.title = "Machine Learning Engineer Path",
                !.target_role = "Machine Learning Engineer"]
      [] track = "ai" ->
            [generate_datascience_curriculum(proficiency) EXCEPT
                !.title = "AI Engineer Path",
                !.target_role = "AI Engineer"]

\* C4: build_curriculum returns a curriculum for every target role, the one
\* of the first routing rule the normalised key matches, and the fullstack
\* template when no rule matches.
C4_FirstMatchingRule ==
    IsBuildCall =>
        /\ "modules" \in DOMAIN learning_path
        /\ learning_path = C4_Template(C4_Track(C4_Key(call.target_role)),
                                       call.proficiency)

\* a role that matches the "mobile" rule and the later "ai" rule was routed
C4_Witness ==
    /\ IsBuildCall
    /\ {5, 7} \subseteq C4_Matching(C4_Key(call.target_role))
    /\ learning_path.target_role = "Mobile App Developer"

\* C5: the curriculum build_curriculum returns has a non-empty module list
\* whose order fields are 1..N in list position.
C5_OrderIsPosition ==
    IsBuildCall =>
        /\ Len(learning_path.modules) >= 1
        /\ \A i \in 1..Len(learning_path.modules) : learning_path.modules[i].order = i

\* a built curriculum of several modules
C5_Witness ==
    /\ IsBuildCall
    /\ Len(learning_path.modules) >= 8
    /\ learning_path.modules[8].order = 8

IsProficiencyCall == call.op = "determine_proficiency_level"

\* C6: determine_proficiency_level returns advanced iff score >= 80 and skill
\* count >= 10, otherwise intermediate iff score >= 50 and skill count >= 5,
\* otherwise beginner; one threshold of a tier alone does not reach the tier.
C6_TierThresholds ==
    IsProficiencyCall =>
        LET score == call.assessment_score
            count == Len(call.current_skills)
            is_advanced == score >= 80 /\ count >= 10
            is_intermediate == ~is_advanced /\ score >= 50 /\ count >= 5
        IN  /\ (call.ret = "advanced") <=> is_advanced
            /\ (call.ret = "intermediate") <=> is_intermediate
            /\ (call.ret = "beginner") <=> (~is_advanced /\ ~is_intermediate)
            /\ (score >= 80 /\ count < 10) => call.ret # "advanced"
            /\ (score < 80 /\ count >= 10) => call.ret # "advanced"
            /\ (score >= 50 /\ count < 5) => call.ret = "beginner"
            /\ (score < 50 /\ count >= 5) => call.ret = "beginner"

\* the score of the advanced tier with one skill too few
C6_Witness ==
    /\ IsProficiencyCall
    /\ call.assessment_score >= 80
    /\ Len(call.current_skills) = 9
    /\ call.ret = "intermediate"

C7_TierRank(tier) ==
    CASE tier = "beginner" -> 1
      [] tier = "intermediate" -> 2
      [] tier = "advanced" -> 3

\* C7: determine_proficiency_level is monotonic: of two calls, the one with
\* the score and the skill count that are not smaller does not return the
\* lower tier.
C7_Monotonic ==
    [][(/\ IsProficiencyCall
        /\ call'.op = "determine_proficiency_level"
        /\ call.assessment_score <= call'.assessment_score
        /\ Len(call.current_skills) <= Len(call'.current_skills))
       => C7_TierRank(call.ret) <= C7_TierRank(call'.ret)]_vars

\* a call that returned a tier above beginner with more skills than the tier
\* asks for (a call with fewer skills and a lower tier can precede it)
C7_Witness ==
    /\ IsProficiencyCall
    /\ call.ret = "intermediate"
    /\ Len(call.current_skills) > 5
    /\ call.assessment_score > 50

IsGapCall == call.op = "analyze_skill_gaps"

\* the number of skills the taxonomy lists for a role key, over the three tiers
C8_TierSum(role_key) ==
    Len(load_skill_hierarchy[role_key].beginner)
    + Len(load_skill_hierarchy[role_key].intermediate)
    + Len(load_skill_hierarchy[role_key].advanced)

\* C8: for a role key of the taxonomy and an empty current-skills list,
\* analyze_skill_gaps returns completion_percentage 0 and as many
\* missing_skills as the three tiers of the role have skills, which is
\* total_required.
C8_EmptySkillsAllMissing ==
    (/\ IsGapCall
     /\ call.current_skills = <<>>
     /\ C4_Key(call.target_role) \in DOMAIN load_skill_hierarchy)
    => /\ ~IsError(call.ret)
       /\ call.ret.completion_percentage.num = 0
       /\ Len(call.ret.missing_skills) = C8_TierSum(C4_Key(call.target_role))
       /\ Len(call.ret.missing_skills) = call.ret.total_required

\* the call for a role named with a space, whose key has an underscore
C8_Witness ==
    /\ IsGapCall
    /\ call.current_skills = <<>>
    /\ call.target_role = "data science"
    /\ Len(call.ret.missing_skills) = 12

IsEstimateCall == call.op = "calculate_time_estimates"

IsPredictCall == call.op = "predict_completion_date"

\* C9: a zero denominator raises no division error and yields the sentinel:
\* analyze_skill_gaps for a role key outside the taxonomy gives total_required
\* 0 and completion_percentage 0; calculate_time_estimates with daily_hours
\* <= 0 gives estimated_days 0 for every module and total_estimated_weeks 0;
\* predict_completion_date with velocity 0 gives 'Cannot estimate' and 'low'.
C9_ZeroDenominators ==
    /\ (IsGapCall /\ C4_Key(call.target_role) \notin DOMAIN load_skill_hierarchy)
       => /\ ~IsError(call.ret)
          /\ call.ret.total_required = 0
          /\ call.ret.completion_percentage.num = 0
    /\ (IsEstimateCall /\ call.daily_hours <= 0)
       => /\ ~IsError(learning_path)
          /\ \A i \in 1..Len(learning_path.modules) :
                learning_path.modules[i].estimated_days = 0
          /\ learning_path.total_estimated_weeks = 0
    /\ (IsPredictCall /\ call.learning_velocity = 0)
       => /\ ~IsError(call.ret)
          /\ call.ret.estimated_date = "Cannot estimate"
          /\ call.ret.confidence = "low"

\* the prediction was asked for with topics remaining and velocity 0
C9_Witness ==
    /\ IsPredictCall
    /\ call.learning_velocity = 0
    /\ call.total_topics > call.current_progress
    /\ call.ret.confidence = "low"

\* the multiplier of a proficiency string, in hundredths
C10_Multiplier(proficiency) ==
    CASE proficiency = "beginner" -> 150
      [] proficiency = "intermediate" -> 100
      [] proficiency = "advanced" -> 70
      [] OTHER -> 100

\* C10: after calculate_time_estimates every topic's estimated_hours lies in
\* [2*multiplier, 8*multiplier] and is base*multiplier for an integer base in
\* 2..8, the multiplier being 1.5, 1.0, 0.7 for beginner, intermediate,
\* advanced and 1.0 for any other proficiency string.
C10_HoursWithinRange ==
    (IsEstimateCall /\ ~IsError(learning_path)) =>
        LET topics == TopicsOf(learning_path)
            multiplier == C10_Multiplier(call.proficiency)
        IN  \A k \in 1..Len(topics) :
                LET hours == topics[k].estimated_hours * 10
                IN  /\ 2 * multiplier <= hours
                    /\ hours <= 8 * multiplier
                    /\ \E base \in 2..8 : hours = base * multiplier

\* an estimate for the advanced tier in which one topic drew the smallest
\* base and another the largest
C10_Witness ==
    /\ IsEstimateCall
    /\ call.proficiency = "advanced"
    /\ LET topics == TopicsOf(learning_path)
       IN  /\ \E k \in 1..Len(topics) : topics[k].estimated_hours = 14
           /\ \E k \in 1..Len(topics) : topics[k].estimated_hours = 56

----------------------------------------------------------------------------
(* Properties of fetch_resources_for_topic *)

IsFetchCall == call.op = "fetch_resources_for_topic"

IsEnrichCall == call.op = "add_personalized_resources"

\* the resource types the claim gives a preference list, in order
C11_ExpectedTypes(preferred_content) ==
    LET chosen == {preferred_content[i] : i \in 1..Len(preferred_content)}
    IN  (IF "videos" \in chosen \/ "Videos" \in chosen THEN <<"video">> ELSE <<>>)
        \o (IF "articles" \in chosen \/ "Articles" \in chosen
            THEN <<"article">> ELSE <<>>)
        \o (IF "interactive" \in chosen \/ "Interactive Coding" \in chosen
            THEN <<"interactive">> ELSE <<>>)
        \o <<"documentation">>

C11_TypesOf(resources) == [i \in 1..Len(resources) |-> resources[i].type]

\* C11: fetch_resources_for_topic returns a video descriptor iff the
\* preferences contain 'videos' or 'Videos', an article descriptor iff they
\* contain 'articles' or 'Articles', an interactive descriptor iff they contain
\* 'interactive' or 'Interactive Coding', in that order, then exactly one
\* documentation descriptor; with preferences ['videos'] every topic of the
\* enriched curriculum has one video and one documentation resource only.
C11_ResourcesFollowPreferences ==
    /\ IsFetchCall
       => C11_TypesOf(call.ret) = C11_ExpectedTypes(call.preferred_content)
    /\ IsEnrichCall
       => LET topics == TopicsOf(learning_path)
          IN  \A k \in 1..Len(topics) :
                /\ C11_TypesOf(topics[k].resources)
                      = C11_ExpectedTypes(call.preferred_content)
                /\ call.preferred_content = <<"videos">>
                   => C11_TypesOf(topics[k].resources)
                        = <<"video", "documentation">>

\* a list with the capitalised video spelling, a spelling that is not looked
\* for and no article spelling gave a video and the documentation
C11_Witness ==
    /\ IsFetchCall
    /\ call.preferred_content = <<"Interactive", "Videos">>
    /\ C11_TypesOf(call.ret) = <<"video", "documentation">>

----------------------------------------------------------------------------
(* Properties of generate_personalized_path *)

IsGenerateCall == call.op = "generate_personalized_path"

\* the record d agrees with the record t on every key of t but the given one
C12_Keeps(d, t, but) ==
    /\ DOMAIN t \subseteq DOMAIN d
    /\ \A k \in DOMAIN t \ {but} : d[k] = t[k]

\* C12: generate_personalized_path composes gap analysis, proficiency, build,
\* sequence, enrich and estimate: the difficulty of the result is
\* determine_proficiency_level(current_skills, assessment_score), its modules
\* and topics are those of the template routed for target_role at that
\* proficiency, and every topic carries locked (from the prerequisites and the
\* skills), resources (from the preferences) and estimated_hours (from the
\* proficiency); no skills and score 0 give difficulty beginner and first
\* module module_1.
C12_ComposedInOrder ==
    IsGenerateCall =>
        LET user_data == call.user_data
            proficiency == determine_proficiency_level(user_data.current_skills,
                                                       user_data.assessment_score)
            template == C4_Template(C4_Track(C4_Key(user_data.target_role)),
                                    proficiency)
            topics == TopicsOf(learning_path)
            plain == TopicsOf(template)
        IN  /\ "modules" \in DOMAIN learning_path
            /\ learning_path.difficulty = proficiency
            /\ C12_Keeps(learning_path, template, "modules")
            /\ Len(learning_path.modules) = Len(template.modules)
            /\ \A i \in 1..Len(template.modules) :
                  /\ C12_Keeps(learning_path.modules[i], template.modules[i], "topics")
                  /\ Len(learning_path.modules[i].topics)
                        = Len(template.modules[i].topics)
            /\ \A k \in 1..Len(plain) :
                  /\ C12_Keeps(topics[k], plain[k], "")
                  /\ {"locked", "resources", "estimated_hours"} \subseteq DOMAIN topics[k]
                  /\ topics[k].locked
                        = ~C3_AllPrerequisitesInSkills(topics[k], user_data.current_skills)
                  /\ C11_TypesOf(topics[k].resources)
                        = C11_ExpectedTypes(user_data.preferred_content)
                  /\ topics[k].estimated_hours
                        = round1(call.draws[k] * C10_Multiplier(proficiency))
            /\ (user_data.current_skills = <<>> /\ user_data.assessment_score = 0)
               => /\ learning_path.difficulty = "beginner"
                  /\ learning_path.modules[1].id = "module_1"

\* a path was generated for a user with ten skills and score 90: it is
\* advanced, and a topic whose prerequisite is among the skills is unlocked
C12_Witness ==
    /\ IsGenerateCall
    /\ Len(call.user_data.current_skills) = 10
    /\ call.user_data.assessment_score = 90
    /\ learning_path.difficulty = "advanced"
    /\ LET topics == TopicsOf(learning_path)
       IN  \E k \in 1..Len(topics) :
             /\ topics[k].prerequisites # <<>>
             /\ ~topics[k].locked
             /\ topics[k].estimated_hours > 0

----------------------------------------------------------------------------
(* Properties of adapt_curriculum *)

IsAdaptCall == call.op = "adapt_curriculum"

\* the sum of the scores of a performance list, in hundredths
C13_Total(user_performance) ==
    sum([i \in 1..Len(user_performance) |->
            IF "score" \in DOMAIN user_performance[i]
            THEN user_performance[i].score ELSE 0])

----------------------------------------------------------------------------
(* Properties of predict_completion_date *)

C14_Abs(x) == IF x < 0 THEN -x ELSE x

----------------------------------------------------------------------------
(* Properties of calculate_streak *)

IsStreakCall == call.op = "calculate_streak"

\* the days of the calendar that have a log, as positions in the calendar
C15_LoggedDays(activity_logs, calendar) ==
    {d \in 1..Len(calendar) :
        \E i \in 1..Len(activity_logs) : activity_logs[i].date = calendar[d]}

\* every one of the n days that end today has a log
C15_RunEndsToday(n, logged) ==
    \A d \in (TodayIndex - n + 1)..TodayIndex : d \in logged

\* C15: calculate_streak returns the length of the longest run of consecutive
\* calendar days that ends today and in which every day has at least one log,
\* for logs with ISO date strings in any order and with duplicates: logs for
\* today and yesterday only give 2, a missing day ends the count at the gap,
\* no log for today gives 0.
C15_StreakEndsToday ==
    IsStreakCall =>
        LET logged == C15_LoggedDays(call.activity_logs, call.calendar)
        IN  /\ call.ret \in 0..TodayIndex
            /\ C15_RunEndsToday(call.ret, logged)
            /\ call.ret < TodayIndex => ~C15_RunEndsToday(call.ret + 1, logged)
            /\ logged = {TodayIndex - 1, TodayIndex} => call.ret = 2
            /\ TodayIndex \notin logged => call.ret = 0

\* the logs came oldest first, today twice, the day before yesterday missing
\* and today the first of a month: the streak is 2
C15_Witness ==
    /\ IsStreakCall
    /\ call.activity_logs = <<[date |-> "2024-02-29"], [date |-> "2024-03-01"],
                              [date |-> "2024-03-01"]>>
    /\ call.ret = 2

----------------------------------------------------------------------------
(* Properties of suggest_study_schedule *)

IsScheduleCall == call.op = "suggest_study_schedule"

\* the hours of a topic, in tenths: 2 hours when it has no estimate
C16_Hours(topic) ==
    IF "estimated_hours" \in DOMAIN topic THEN topic.estimated_hours ELSE 20

\* the positions in days_of_week of the days that got topics
C16_Days(schedule) ==
    {d \in 1..Len(days_of_week) : days_of_week[d] \in DOMAIN schedule.daily_breakdown}

\* the number of topics placed on the days before day d
C16_PlacedBefore(schedule, d) ==
    sum([e \in 1..(d - 1) |->
            IF e \in C16_Days(schedule)
            THEN Len(schedule.daily_breakdown[days_of_week[e]].topics) ELSE 0])

\* C16: suggest_study_schedule places the topics in input order on consecutive
\* weekdays from Monday on: a day's topics are the next topics of the input,
\* each whole and on one day only, its total_hours is the sum of their hours
\* and is <= available_hours; the first topic of a following day is the one
\* that no longer fitted on the day before; topics that are not placed within
\* the 7 days are left out.
C16_DaysWithinHours ==
    IsScheduleCall =>
        LET schedule == call.ret
            topics == call.upcoming_topics
            days == C16_Days(schedule)
        IN  /\ DOMAIN schedule.daily_breakdown
                  \subseteq {days_of_week[d] : d \in 1..Len(days_of_week)}
            /\ \A d \in days : \A e \in 1..d : e \in days
            /\ C16_PlacedBefore(schedule, Len(days_of_week) + 1) <= Len(topics)
            /\ \A d \in days :
                  LET day == schedule.daily_breakdown[days_of_week[d]]
                      first == C16_PlacedBefore(schedule, d)
                  IN  /\ day.topics # <<>>
                      /\ day.topics = SubSeq(topics, first + 1, first + Len(day.topics))
                      /\ day.total_hours
                            = sum([k \in 1..Len(day.topics) |-> C16_Hours(day.topics[k])])
                      /\ day.total_hours <= call.available_hours
                      /\ (d + 1) \in days
                         => LET moved == topics[first + Len(day.topics) + 1]
                            IN  \/ day.total_hours + C16_Hours(moved) > call.available_hours
                                \/ day.total_hours = call.available_hours
            /\ schedule.total_hours
                  = sum([d \in 1..Len(days_of_week) |->
                            IF d \in days
                            THEN schedule.daily_breakdown[days_of_week[d]].total_hours
                            ELSE 0])

\* nine topics without an estimate (2 hours each) at 2 hours a day: every
\* day of the week got one topic and the last two topics were left out
C16_Witness ==
    /\ IsScheduleCall
    /\ call.available_hours = 20
    /\ Len(call.upcoming_topics) = 9
    /\ \A k \in 1..9 : "estimated_hours" \notin DOMAIN call.upcoming_topics[k]
    /\ C16_Days(call.ret) = 1..Len(days_of_week)
    /\ C16_PlacedBefore(call.ret, Len(days_of_week) + 1) = 7
    /\ call.ret.total_hours = 140

----------------------------------------------------------------------------
(* Properties of analyze_learning_velocity *)

IsVelocityCall == call.op = "analyze_learning_velocity"

\* the topics completed in the last 7 logs (in all of them if there are fewer)
C17_RecentSum(activity_logs) ==
    LET n == Len(activity_logs)
    IN  sum([k \in 1..n |->
                IF k > n - 7 /\ "topics_completed" \in DOMAIN activity_logs[k]
                THEN activity_logs[k].topics_completed ELSE 0])

\* C17: analyze_learning_velocity returns velocity 'insufficient_data' for an
\* empty log list; otherwise, with the sum of topics_completed over the last 7
\* logs (fewer if fewer exist), always divided by 7, it returns 'fast' iff the
\* sum is >= 14, 'moderate' iff 7 <= sum < 14, 'slow' iff sum < 7, and
\* topics_per_week is that sum.
C17_VelocityOfLastSeven ==
    IsVelocityCall =>
        LET total == C17_RecentSum(call.activity_logs)
            ret == call.ret
        IN  IF call.activity_logs = <<>>
            THEN ret.velocity = "insufficient_data"
            ELSE /\ ret.velocity \in {"fast", "moderate", "slow"}
                 /\ (ret.velocity = "fast") = (total >= 14)
                 /\ (ret.velocity = "moderate") = (7 <= total /\ total < 14)
                 /\ (ret.velocity = "slow") = (total < 7)
                 /\ ret.topics_per_week = total * 10
                 /\ 7 * ret.topics_per_day - 3 <= total * 100
                 /\ total * 100 <= 7 * ret.topics_per_day + 3

\* three logs of three topics each: 9 topics over 7 days, moderate
C17_Witness ==
    /\ IsVelocityCall
    /\ Len(call.activity_logs) = 3
    /\ \A k \in 1..3 : /\ "topics_completed" \in DOMAIN call.activity_logs[k]
                        /\ call.activity_logs[k].topics_completed = 3
    /\ call.ret.velocity = "moderate"
    /\ call.ret.topics_per_week = 90
    /\ call.ret.topics_per_day = 129

----------------------------------------------------------------------------
(* Properties of detect_struggling_topics *)

IsStrugglingCall == call.op = "detect_struggling_topics"

\* the record is over time (more than 1.5 times the expected minutes, 120
\* when none are given) or marked too hard
C18_Struggling(progress) ==
    \/ 2 * (IF "time_spent_minutes" \in DOMAIN progress
            THEN progress.time_spent_minutes ELSE 0)
         > 3 * (IF "expected_minutes" \in DOMAIN progress
                THEN progress.expected_minutes ELSE 120)
    \/ /\ "difficulty_feedback" \in DOMAIN progress
       /\ progress.difficulty_feedback = "too_hard"

\* C18: detect_struggling_topics deduplicates by topic_id within one call:
\* for every list of progress records the result has at most one entry per
\* topic_id, and a topic is in the result iff some record for it has time
\* spent > 1.5 x expected time or feedback 'too_hard'.
C18_OneEntryPerTopic ==
    (IsStrugglingCall /\ ~IsError(call.ret)) =>
        LET ret == call.ret.struggling_topics
            progress_data == call.progress_data
        IN  /\ \A i, j \in 1..Len(ret) : ret[i].topic_id = ret[j].topic_id => i = j
            /\ \A i \in 1..Len(ret) :
                  \E k \in 1..Len(progress_data) :
                      /\ progress_data[k].topic_id = ret[i].topic_id
                      /\ C18_Struggling(progress_data[k])
            /\ \A k \in 1..Len(progress_data) :
                  C18_Struggling(progress_data[k])
                  => \E i \in 1..Len(ret) : ret[i].topic_id = progress_data[k].topic_id

----------------------------------------------------------------------------
(* Properties of generate_path and regenerate_path *)

\* the ids of the active paths of a user and target role
ActivePaths(paths, user_id, target_role) ==
    {i \in 1..Len(paths) : /\ paths[i].user_id = user_id
                           /\ paths[i].target_role = target_role
                           /\ paths[i].is_active}

C19_AtMostOneActive ==
    \A i, j \in 1..Len(learning_paths) :
        (/\ learning_paths[i].is_active
         /\ learning_paths[j].is_active
         /\ learning_paths[i].user_id = learning_paths[j].user_id
         /\ learning_paths[i].target_role = learning_paths[j].target_role)
        => i = j

\* C19: when generate-path and regenerate-path requests run one at a time,
\* starting from no paths, each (user, target_role) has at most one active
\* learning path after every step; a step deletes no path and changes no
\* column of a stored path except is_active, from true to false; a path that
\* is inserted is active and is then the only active path of its user and
\* target role.
C19_OneActivePath ==
    [][/\ C19_AtMostOneActive'
       /\ Len(learning_paths') \in {Len(learning_paths), Len(learning_paths) + 1}
       /\ \A i \in 1..Len(learning_paths) :
             /\ [learning_paths'[i] EXCEPT !.is_active = TRUE]
                   = [learning_paths[i] EXCEPT !.is_active = TRUE]
             /\ learning_paths'[i].is_active => learning_paths[i].is_active
       /\ Len(learning_paths') > Len(learning_paths)
          => LET new == learning_paths'[Len(learning_paths')]
             IN  /\ new.is_active
                 /\ ActivePaths(learning_paths', new.user_id, new.target_role)
                       = {Len(learning_paths')}]_vars

\* a user has two deactivated paths and one active path of one role: the
\* path was generated three times
C19_Witness ==
    /\ Len(learning_paths) = 3
    /\ \A i \in 1..3 : /\ learning_paths[i].user_id = 1
                        /\ learning_paths[i].target_role = "Backend Developer"
    /\ ~learning_paths[1].is_active
    /\ ~learning_paths[2].is_active
    /\ learning_paths[3].is_active
    /\ InProgress = {}

\* C20: generate-path requests of one user and target role are not
\* synchronized: the deactivation step of a generate-path request
\* deactivates the one path its lookup found and no other, so when two
\* requests have interleaved between lookup and insert and left two active
\* paths of that user and role, a later request deactivates only one of them.
C20_DeactivatesOnlyOne ==
    [][\A r \in RequestIds :
          (requests[r].pc = "deactivate" /\ requests'[r].pc = "insert")
          => LET user_id == requests[r].user_id
                 target_role == requests[r].target_role
                 before == ActivePaths(learning_paths, user_id, target_role)
                 after == ActivePaths(learning_paths', user_id, target_role)
             IN  /\ after \subseteq before
                 /\ before \ after \subseteq {requests[r].existing_path}
                 /\ Cardinality(before) >= 2 => after # {}]_vars

\* two requests that interleaved left two active paths of one user and
\* role, and the request after them deactivated the newer one only: the
\* oldest path and the newest path are active
C20_Witness ==
    /\ Len(learning_paths) = 3
    /\ \A i \in 1..3 : /\ learning_paths[i].user_id = 1
                        /\ learning_paths[i].target_role = "Full Stack Developer"
    /\ learning_paths[1].is_active
    /\ ~learning_paths[2].is_active
    /\ learning_paths[3].is_active

----------------------------------------------------------------------------
(* Prerequisite resolution of the recommender against the lock flags *)

\* the stored lock flags are the ones optimize_learning_sequence gives for
\* the user's current skill list
C21_SameSkillList ==
    optimize_learning_sequence(learning_path, user_skills) = learning_path

\* C21: prerequisite resolution in recommend_next_topics matches the user's
\* skills case-insensitively: with the same skill list, a topic that
\* optimize_learning_sequence left unlocked never fails the recommender's
\* prerequisite check, so every unlocked topic that is not completed is among
\* the topics the loop of recommend_next_topics collects.
C21_UnlockedPassesCheck ==
    C21_SameSkillList =>
        LET topics == TopicsOf(learning_path)
            collected == collect_recommendations(user_progress, user_skills,
                                                 learning_path)
        IN  \A k \in 1..Len(topics) :
                (~topics[k].locked /\ topics[k].id \notin user_progress)
                => \E i \in 1..Len(collected) :
                       collected[i].topic_id = topics[k].id

----------------------------------------------------------------------------
(* Properties of the result of analyze_skill_gaps *)

\* the skills the taxonomy lists for a role key, tier after tier
C22_Required(role_key) ==
    IF role_key \in DOMAIN load_skill_hierarchy
    THEN load_skill_hierarchy[role_key].beginner
         \o load_skill_hierarchy[role_key].intermediate
         \o load_skill_hierarchy[role_key].advanced
    ELSE <<>>

\* the positions of the required skills no current skill equals in lower case
C22_MissingPositions(required, current_skills) ==
    {i \in 1..Len(required) :
        \A s \in 1..Len(current_skills) :
            lower(current_skills[s]) # lower(required[i])}

\* C22: analyze_skill_gaps returns as missing_skills exactly the sub-sequence
\* of the role's required skills (beginner, intermediate, advanced, each in
\* taxonomy order) whose lower-case form is not among the lower-cased current
\* skills, one entry per occurrence, and existing_skills is the input list.
C22_MissingInTaxonomyOrder ==
    IsGapCall =>
        LET required == C22_Required(C4_Key(call.target_role))
            positions == C22_MissingPositions(required, call.current_skills)
            \* the j-th smallest missing position
            nth(j) == CHOOSE i \in positions :
                          Cardinality({x \in positions : x < i}) = j - 1
            missing_skills == call.ret.missing_skills
        IN  /\ ~IsError(call.ret)
            /\ Len(missing_skills) = Cardinality(positions)
            /\ \A j \in 1..Len(missing_skills) : missing_skills[j] = required[nth(j)]
            /\ call.ret.existing_skills = call.current_skills

\* skills in another letter case than the taxonomy: "css" stands for "CSS",
\* and the 9 other skills of the frontend role are missing, in taxonomy order
C22_Witness ==
    /\ IsGapCall
    /\ call.target_role = "frontend"
    /\ call.current_skills = <<"HTML", "css", "Git">>
    /\ call.ret.missing_skills =
           <<"JavaScript Basics", "React", "CSS Frameworks", "Responsive Design",
             "APIs", "State Management", "Performance Optimization", "Testing",
             "Build Tools">>

----------------------------------------------------------------------------
(* Properties of the sums of calculate_time_estimates *)

\* the estimated hours of the topics of a module, added up
RECURSIVE C23_TopicHours(_, _)
C23_TopicHours(module, j) ==
    IF j = 0 THEN 0
    ELSE C23_TopicHours(module, j - 1) + module.topics[j].estimated_hours

\* the estimated hours of the first i modules, added up
RECURSIVE C23_ModuleHours(_, _)
C23_ModuleHours(curriculum, i) ==
    IF i = 0 THEN 0
    ELSE C23_ModuleHours(curriculum, i - 1) + curriculum.modules[i].estimated_hours

\* C23: after calculate_time_estimates, for every random draw and each of the
\* multipliers 1.5, 1.0 and 0.7, each module's estimated_hours equals the sum
\* of the estimated_hours of its topics, and the curriculum's
\* total_estimated_hours equals the sum of the modules' estimated_hours
\* (hours in tenths).
C23_HoursAddUp ==
    (IsEstimateCall /\ ~IsError(learning_path)) =>
        LET modules == learning_path.modules
        IN  /\ \A i \in 1..Len(modules) :
                  modules[i].estimated_hours
                      = C23_TopicHours(modules[i], Len(modules[i].topics))
            /\ learning_path.total_estimated_hours
                   = C23_ModuleHours(learning_path, Len(modules))

\* an estimate with multiplier 1.5 in which a module of several topics has a
\* topic of 4.5 hours and the total is more than the first module's hours
C23_Witness ==
    /\ IsEstimateCall
    /\ ~IsError(learning_path)
    /\ call.proficiency = "beginner"
    /\ LET modules == learning_path.modules
       IN  /\ \E i \in 1..Len(modules) :
                 /\ Len(modules[i].topics) > 1
                 /\ \E j \in 1..Len(modules[i].topics) :
                        modules[i].topics[j].estimated_hours = 45
           /\ learning_path.total_estimated_hours > modules[1].estimated_hours

----------------------------------------------------------------------------
(* Properties of the days and weeks of calculate_time_estimates *)

\* the unrounded hours of module i, in hundredths: the draws of its topics
\* times the multiplier
RECURSIVE C24_ModuleHours(_, _, _, _)
C24_ModuleHours(curriculum, i, draws, j) ==
    IF j = 0 THEN 0
    ELSE C24_ModuleHours(curriculum, i, draws, j - 1)
         + draws[TopicOffset(curriculum, i) + j] * C10_Multiplier(call.proficiency)

\* the unrounded hours of the first i modules, in hundredths
RECURSIVE C24_TotalHours(_, _, _)
C24_TotalHours(curriculum, i, draws) ==
    IF i = 0 THEN 0
    ELSE C24_TotalHours(curriculum, i - 1, draws)
         + C24_ModuleHours(curriculum, i, draws, Len(curriculum.modules[i].topics))

\* the whole weeks of the first i modules, each module floored on its own
RECURSIVE C24_FlooredWeeks(_, _, _, _)
C24_FlooredWeeks(curriculum, i, draws, daily_hours) ==
    IF i = 0 THEN 0
    ELSE C24_FlooredWeeks(curriculum, i - 1, draws, daily_hours)
         + (C24_ModuleHours(curriculum, i, draws, Len(curriculum.modules[i].topics))
              \div (7 * 10 * daily_hours))

----------------------------------------------------------------------------
(* Progress of a learner through a generated curriculum, under SpecLearner *)

\* some topic of the curriculum is not completed
C25_TopicRemains ==
    LET topics == TopicsOf(learning_path)
    IN  \E k \in 1..Len(topics) : topics[k].id \notin user_progress

\* C25: for a curriculum generated for a user with no skills, if the user
\* repeatedly completes one of the topics returned by recommend_next_topics,
\* then recommend_next_topics returns a non-empty list as long as an
\* uncompleted topic remains, and eventually every topic is completed.
C25_ProgressAlwaysPossible ==
    /\ []((IsRecommendCall /\ C25_TopicRemains) => Len(call.ret) > 0)
    /\ <>(~C25_TopicRemains)

----------------------------------------------------------------------------
(* Properties of the prerequisites of the curriculum templates *)

\* C26: in every curriculum template (every track, every tier), each
\* prerequisite string of a topic is the title of a topic that appears earlier
\* in scan order in the same curriculum.
C26_PrerequisitesAreEarlierTitles ==
    IsBuildCall =>
        LET topics == TopicsOf(learning_path)
        IN  \A k \in 1..Len(topics) :
                LET prerequisites == Get(topics[k], "prerequisites", <<>>)
                IN  \A p \in 1..Len(prerequisites) :
                        \E j \in 1..(k - 1) : topics[j].title = prerequisites[p]

----------------------------------------------------------------------------
(* The placed topics of suggest_study_schedule as a prefix of the input *)

\* the topics placed on the first d days of the week, day after day
RECURSIVE C27_Placed(_, _)
C27_Placed(schedule, d) ==
    IF d = 0 THEN <<>>
    ELSE C27_Placed(schedule, d - 1)
         \o (IF days_of_week[d] \in DOMAIN schedule.daily_breakdown
             THEN schedule.daily_breakdown[days_of_week[d]].topics
             ELSE <<>>)

\* C27: the topics placed by suggest_study_schedule always form a prefix of
\* upcoming_topics in input order, so a topic whose estimated hours exceed the
\* available hours per day is never placed and no topic after it is placed
\* either, even if it would fit in a day.
C27_PlacedIsPrefix ==
    IsScheduleCall =>
        LET topics == call.upcoming_topics
            placed == C27_Placed(call.ret, Len(days_of_week))
        IN  /\ Len(placed) <= Len(topics)
            /\ placed = SubSeq(topics, 1, Len(placed))
            /\ \A k \in 1..Len(topics) :
                  C16_Hours(topics[k]) > call.available_hours => Len(placed) < k

\* at 2 hours a day the first topic (2 hours) is placed, the second (2.5
\* hours) never fits, and the third (2 hours) is left out with it
C27_Witness ==
    /\ IsScheduleCall
    /\ call.available_hours = 20
    /\ Len(call.upcoming_topics) >= 3
    /\ C16_Hours(call.upcoming_topics[1]) = 20
    /\ C16_Hours(call.upcoming_topics[2]) = 25
    /\ C16_Hours(call.upcoming_topics[3]) = 20
    /\ Len(C27_Placed(call.ret, Len(days_of_week))) = 1

----------------------------------------------------------------------------
(* The range of the completion percentage of analyze_skill_gaps *)

\* C28: for every role and every current-skills list, the
\* completion_percentage returned by analyze_skill_gaps lies between 0 and
\* 100, and it is 100 only when missing_skills is empty.
C28_PercentageWithinRange ==
    (IsGapCall /\ ~IsError(call.ret)) =>
        LET completion_percentage == call.ret.completion_percentage
        IN  /\ ~frac_lt(completion_percentage, 0)
            /\ ~frac_gt(completion_percentage, 100)
            /\ (completion_percentage.num = 100 * completion_percentage.den)
               => call.ret.missing_skills = <<>>

----------------------------------------------------------------------------
(* The division of detect_struggling_topics *)

\* C29: detect_struggling_topics returns a list and never raises a division
\* error for any progress records, including records whose expected_minutes
\* is 0 while time_spent_minutes is positive.
C29_NeverDivisionError ==
    IsStrugglingCall =>
        /\ ~IsError(call.ret)
        /\ "struggling_topics" \in DOMAIN call.ret

----------------------------------------------------------------------------
(* Properties of the Progress rows of complete_topic, under SpecComplete *)

IsCompleteCall == call.op = "complete_topic"

\* at most one row for every (user, learning path, module_id, topic_id)
C30_OneRowPerTopic(rows) ==
    \A i, j \in 1..Len(rows) :
        (/\ rows[i].user_id = rows[j].user_id
         /\ rows[i].learning_path_id = rows[j].learning_path_id
         /\ rows[i].module_id = rows[j].module_id
         /\ rows[i].topic_id = rows[j].topic_id) => i = j

\* the rows of the path are all rows of this user
C30_OnlyUser(rows, learning_path_id, user_id) ==
    \A i \in 1..Len(rows) :
        rows[i].learning_path_id = learning_path_id => rows[i].user_id = user_id

\* the user's completed rows for the path, counted row by row
RECURSIVE C30_Completed(_, _, _, _)
C30_Completed(rows, n, learning_path_id, user_id) ==
    IF n = 0 THEN 0
    ELSE C30_Completed(rows, n - 1, learning_path_id, user_id)
         + (IF /\ rows[n].user_id = user_id
               /\ rows[n].learning_path_id = learning_path_id
               /\ rows[n].status = "completed"
            THEN 1 ELSE 0)

\* the row of the request was there, completed, before the request
C30_CompletedBefore ==
    \E i \in 1..Len(progress_rows) :
        /\ progress_rows[i].user_id = call'.user_id
        /\ progress_rows[i].learning_path_id = call'.learning_path_id
        /\ progress_rows[i].module_id = call'.module_id
        /\ progress_rows[i].topic_id = call'.topic_id
        /\ progress_rows[i].status = "completed"

\* C30: after any sequence of complete-topic requests by one user there is at
\* most one Progress record per (user, learning path, module_id, topic_id);
\* completing an already completed topic again creates no new record and
\* leaves the path's completed_topics and completion_percentage unchanged; and
\* right after each request completed_topics equals the number of that user's
\* completed Progress records for the path.
C30_OneProgressPerTopic ==
    [][/\ C30_OneRowPerTopic(progress_rows')
       /\ (/\ call'.op = "complete_topic"
           /\ call'.status = 200
           /\ C30_OnlyUser(progress_rows', call'.learning_path_id, call'.user_id))
          => /\ learning_paths'[call'.learning_path_id].completed_topics
                    = C30_Completed(progress_rows', Len(progress_rows'),
                                    call'.learning_path_id, call'.user_id)
             /\ C30_CompletedBefore
                => /\ Len(progress_rows') = Len(progress_rows)
                   /\ learning_paths'[call'.learning_path_id].completed_topics
                          = learning_paths[call'.learning_path_id].completed_topics
                   /\ learning_paths'[call'.learning_path_id].completion_percentage
                          = learning_paths[call'.learning_path_id].completion_percentage
      ]_vars

\* a user completed two topics of a path and then one of them again: two
\* rows, completed_topics 2, 5.9 percent of the 34 topics
C30_Witness ==
    /\ IsCompleteCall
    /\ call.status = 200
    /\ call.found
    /\ Len(progress_rows) = 2
    /\ C30_OnlyUser(progress_rows, call.learning_path_id, call.user_id)
    /\ learning_paths[call.learning_path_id].completed_topics = 2
    /\ learning_paths[call.learning_path_id].completion_percentage = 59

====
